---- MODULE Spec2Model ----
(***************************************************************************)
(* brennpunkt: the LCOV record parser (src/parser.ts) and the priority     *)
(* scorer (src/analyzer.ts).                                               *)
(*                                                                         *)
(* Text is modelled as a sequence of one-character strings, so that trim,  *)
(* startsWith, slice, split and parseInt are computed character by         *)
(* character as the JavaScript built-ins compute them.  A JavaScript       *)
(* number that may be NaN is the record [nan, v]: NaN is [nan |-> TRUE],   *)
(* the integer n is [nan |-> FALSE, v |-> n].                              *)
(***************************************************************************)
EXTENDS Integers, Sequences, FiniteSets, TLC

VARIABLES
    content,    \* parseLcov: the text handed to the parser (characters)
    lines,      \* parseLcov: content.split('\n')
    idx,        \* parseLcov: number of lines the for-loop has consumed
    current,    \* parseLcov: the open record, <<>> for null, <<tally>> otherwise
    files,      \* parseLcov: the tallies pushed so far; the return value at the end
    pc,         \* position in the code that is running
    blocks,     \* the records the producer of the report wrote into content
    runs,       \* the calls of analyzeCoverage made on files: arguments and results
    scored,     \* the calls of analyzeFile made: tally, weights and result
    argv,       \* main: what the user put on the command line
    disk,       \* main: the settings file and the coverage files on disk
    config,     \* main: the merged Config, then the AnalyzerOptions
    exit,       \* main: <<>> while running, <<code>> once the process has ended
    searched,   \* discoverCoverageFile: the paths probed so far
    discovered, \* discoverCoverageFile: <<>> while searching, else what it returned
    uri,        \* the URI a builder returned
    parsed,     \* what parseUri made of uri
    cacheByProject, \* shared.ts: the Map from coverage path to { data, mtime, path }
    configCache,    \* shared.ts: the Map from config path to { config, mtime }
    returned        \* what the last call of an MCP handler's loaders returned

vars == <<content, lines, idx, current, files, pc, blocks, runs,
          scored, argv, disk, config, exit, searched, discovered, uri, parsed,
          cacheByProject, configCache, returned>>

\* the state of the parts that a run of the parser or the scorer does not touch
cacheVars == <<cacheByProject, configCache, returned>>

others == <<scored, argv, disk, config, exit, searched, discovered, uri, parsed,
            cacheVars>>

cliVars == <<argv, disk, config, exit, searched, discovered>>

uriVars == <<uri, parsed>>

\* the MCP server has loaded nothing
CacheIdle ==
    /\ cacheByProject = <<>>
    /\ configCache = <<>>
    /\ returned = <<>>

\* nothing has happened in the parts outside the parser and the scorer
OthersIdle ==
    /\ scored = <<>>
    /\ argv = <<>>
    /\ disk = <<>>
    /\ config = <<>>
    /\ exit = <<>>
    /\ searched = <<>>
    /\ discovered = <<>>
    /\ uri = <<>>
    /\ parsed = <<>>
    /\ CacheIdle

----------------------------------------------------------------------------
(* JavaScript numbers                                                      *)

NaN == [nan |-> TRUE, v |-> 0]

Num(n) == [nan |-> FALSE, v |-> n]

----------------------------------------------------------------------------
(* JavaScript string built-ins, on sequences of characters                 *)

WhiteSpace == {" ", "\t", "\r", "\n"}

Digits == <<"0", "1", "2", "3", "4", "5", "6", "7", "8", "9">>

IsDigit(c) == \E d \in 1..Len(Digits) : Digits[d] = c

DigitValue(c) == (CHOOSE d \in 1..Len(Digits) : Digits[d] = c) - 1

\* s.slice(n): the characters from index n (0-based) to the end
SliceFrom(s, n) == SubSeq(s, n + 1, Len(s))

\* s.startsWith(p)
StartsWith(s, p) == Len(s) >= Len(p) /\ SubSeq(s, 1, Len(p)) = p

RECURSIVE TrimStart(_)
TrimStart(s) ==
    IF s # <<>> /\ Head(s) \in WhiteSpace THEN TrimStart(Tail(s)) ELSE s

RECURSIVE TrimEnd(_)
TrimEnd(s) ==
    IF s # <<>> /\ s[Len(s)] \in WhiteSpace
    THEN TrimEnd(SubSeq(s, 1, Len(s) - 1))
    ELSE s

\* s.trim()
Trim(s) == TrimEnd(TrimStart(s))

\* content.split('\n'): the pieces between consecutive newlines; always at
\* least one (possibly empty) piece
Split(s) ==
    LET nl     == {i \in 1..Len(s) : s[i] = "\n"}
        \* the position of the j-th newline; 0 before the first piece and
        \* Len(s) + 1 after the last
        at(j)  == IF j = 0 THEN 0
                  ELSE IF j > Cardinality(nl) THEN Len(s) + 1
                  ELSE CHOOSE p \in nl : Cardinality({q \in nl : q <= p}) = j
    IN  [j \in 1..(Cardinality(nl) + 1) |-> SubSeq(s, at(j - 1) + 1, at(j) - 1)]

\* the longest prefix of s made of decimal digits
RECURSIVE DigitPrefix(_)
DigitPrefix(s) ==
    IF s # <<>> /\ IsDigit(Head(s)) THEN <<Head(s)>> \o DigitPrefix(Tail(s)) ELSE <<>>

RECURSIVE DigitsValue(_, _)
DigitsValue(s, acc) ==
    IF s = <<>> THEN acc ELSE DigitsValue(Tail(s), 10 * acc + DigitValue(Head(s)))

\* a parseInt that stops after the first digit
parseIntFirstDigit(s) ==
    LET t    == TrimStart(s)
        neg  == t # <<>> /\ Head(t) = "-"
        body == IF t # <<>> /\ Head(t) \in {"-", "+"} THEN Tail(t) ELSE t
        ds   == DigitPrefix(body)
    IN  IF ds = <<>> THEN NaN
        ELSE Num((IF neg THEN -1 ELSE 1) * DigitValue(Head(ds)))

\* parseInt(s, 10): skip leading white space, read an optional sign, then the
\* longest run of decimal digits; NaN when that run is empty.
parseInt(s) ==
    LET t    == TrimStart(s)
        neg  == t # <<>> /\ Head(t) = "-"
        body == IF t # <<>> /\ Head(t) \in {"-", "+"} THEN Tail(t) ELSE t
        ds   == DigitPrefix(body)
    IN  IF ds = <<>> THEN NaN
        ELSE Num((IF neg THEN -1 ELSE 1) * DigitsValue(ds, 0))

----------------------------------------------------------------------------
(* The LCOV markers                                                        *)

SF  == <<"S", "F", ":">>
LF  == <<"L", "F", ":">>
LH  == <<"L", "H", ":">>
FNF == <<"F", "N", "F", ":">>
FNH == <<"F", "N", "H", ":">>
BRF == <<"B", "R", "F", ":">>
BRH == <<"B", "R", "H", ":">>
EndOfRecord == <<"e", "n", "d", "_", "o", "f", "_", "r", "e", "c", "o", "r", "d">>

NoiseLine == <<"D", "A", ":", "1", ",", "5">>

----------------------------------------------------------------------------
(* parseLcov, src/parser.ts                                                *)

\* a fresh tally whose counters start at 1
NewTallyOnes(path) ==
    [file |-> path,
     linesFound |-> Num(1), linesHit |-> Num(1),
     functionsFound |-> Num(1), functionsHit |-> Num(1),
     branchesFound |-> Num(1), branchesHit |-> Num(1)]

\* the object literal assigned to current on an SF: line
NewTally(path) ==
    [file |-> path,
     linesFound |-> Num(0), linesHit |-> Num(0),
     functionsFound |-> Num(0), functionsHit |-> Num(0),
     branchesFound |-> Num(0), branchesHit |-> Num(0)]

\* an SF: line that renames the open record instead of replacing it
StartRecordLeaky(cur, out, trimmed) ==
    [current |-> IF cur = <<>> THEN <<NewTally(SliceFrom(trimmed, 3))>>
                 ELSE <<[cur[1] EXCEPT !.file = SliceFrom(trimmed, 3)]>>,
     files   |-> out]

\* an SF: line whose path is stripped of white space on both sides
StartRecordTrimmed(cur, out, trimmed) ==
    [current |-> <<NewTally(Trim(SliceFrom(trimmed, 3)))>>, files |-> out]

\* current = { file: trimmed.slice(3), linesFound: 0, ... }: an SF: line opens a
\* record and overwrites whatever record was open; nothing is pushed.
StartRecord(cur, out, trimmed) ==
    [current |-> <<NewTally(SliceFrom(trimmed, 3))>>, files |-> out]

\* a line that no branch handles and that closes the open record unfinished
DropLine(cur, out) == [current |-> <<>>, files |-> out]

\* no branch of the if-chain is taken: the iteration assigns nothing
IgnoreLine(cur, out) == [current |-> cur, files |-> out]

\* files.push(current); current = null
EndRecord(cur, out) == [current |-> <<>>, files |-> Append(out, cur[1])]

\* One iteration of the for-loop: the effect of one line on (current, files).
ParseLine(cur, out, line) ==
    LET trimmed == Trim(line)
        same    == IgnoreLine(cur, out)
    IN  IF StartsWith(trimmed, SF)
        THEN StartRecord(cur, out, trimmed)
        ELSE IF cur # <<>>
        THEN LET c == cur[1]
                 set(t) == [current |-> <<t>>, files |-> out]
             IN  IF StartsWith(trimmed, LF)
                 THEN set([c EXCEPT !.linesFound = parseInt(SliceFrom(trimmed, 3))])
                 ELSE IF StartsWith(trimmed, LH)
                 THEN set([c EXCEPT !.linesHit = parseInt(SliceFrom(trimmed, 3))])
                 ELSE IF StartsWith(trimmed, FNF)
                 THEN set([c EXCEPT !.functionsFound = parseInt(SliceFrom(trimmed, 4))])
                 ELSE IF StartsWith(trimmed, FNH)
                 THEN set([c EXCEPT !.functionsHit = parseInt(SliceFrom(trimmed, 4))])
                 ELSE IF StartsWith(trimmed, BRF)
                 THEN set([c EXCEPT !.branchesFound = parseInt(SliceFrom(trimmed, 4))])
                 ELSE IF StartsWith(trimmed, BRH)
                 THEN set([c EXCEPT !.branchesHit = parseInt(SliceFrom(trimmed, 4))])
                 ELSE IF trimmed = EndOfRecord
                 THEN EndRecord(cur, out)
                 ELSE same
        ELSE same

\* The whole loop over the lines ls, from (cur, out): the final (current, files).
RECURSIVE ParseLoop(_, _, _)
ParseLoop(cur, out, ls) ==
    IF ls = <<>> THEN [current |-> cur, files |-> out]
    ELSE LET r == ParseLine(cur, out, Head(ls))
         IN  ParseLoop(r.current, r.files, Tail(ls))

\* parseLcov(content)
parseLcov(text) == ParseLoop(<<>>, <<>>, Split(text)).files

----------------------------------------------------------------------------
(* The reports handed to the parser.  A report is written by a coverage    *)
(* producer as a sequence of records; a block says what the producer wrote *)
(* for one record: the path, the style of the six counter values and the   *)
(* form of the record.                                                     *)

MaxRecords == 2

Paths == { <<"a">>, <<" ", "b">>, <<"c", " ">> }

\* the six counters, in the order LF, LH, FNF, FNH, BRF, BRH
Markers == <<LF, LH, FNF, FNH, BRF, BRH>>

Fields == <<"linesFound", "linesHit", "functionsFound", "functionsHit",
            "branchesFound", "branchesHit">>

\* styles whose counter texts are non-negative decimal integers
NumericStyles == {"plain", "wide"}

Styles == NumericStyles \cup {"bad", "odd"}

\* the integer the producer means by counter k in a numeric style
CounterValue(style, k) ==
    IF style = "wide" THEN 10 * k + 7 ELSE k - 1

\* the decimal digits of a non-negative integer
RECURSIVE ToDecimal(_)
ToDecimal(n) ==
    IF n < 10 THEN <<Digits[n + 1]>>
    ELSE Append(ToDecimal(n \div 10), Digits[(n % 10) + 1])

\* texts that do not yield an integer: non-numeric, empty, NaN, undefined, null
BadText ==
    <<  <<"a", "b", "c">>,
        <<>>,
        <<"N", "a", "N">>,
        <<"u", "n", "d", "e", "f", "i", "n", "e", "d">>,
        <<"n", "u", "l", "l">>,
        <<"x", "1">>  >>

\* texts parseInt reads an integer from although they are not plain digits
OddText ==
    <<  <<"-", "3">>,
        <<"+", "4">>,
        <<"7", "x">>,
        <<" ", "5">>,
        <<"0", "8">>,
        <<"1", ".", "5">>  >>

\* the counter texts (LF, LH, FNF, FNH, BRF, BRH) of the records handed to the
\* scorer: fully covered, nothing instrumented, half covered (small and
\* large), an unreadable LF, unreadable hits, more hits than found
Profiles ==
    [perfect |-> <<"4", "4", "2", "2", "2", "2">>,
     none    |-> <<"0", "0", "0", "0", "0", "0">>,
     half    |-> <<"2", "1", "2", "1", "2", "1">>,
     halfbig |-> <<"4", "2", "2", "1", "2", "1">>,
     nolf    |-> <<"x", "1", "2", "1", "2", "1">>,
     nolh    |-> <<"2", "x", "0", "x", "2", "1">>,
     over    |-> <<"2", "3", "2", "1", "2", "1">>]

ProfileStyles == DOMAIN Profiles

CounterText(style, k) ==
    CASE style = "bad" -> BadText[k]
      [] style = "odd" -> OddText[k]
      [] style \in ProfileStyles -> <<Profiles[style][k]>>
      [] OTHER         -> ToDecimal(CounterValue(style, k))

CounterLine(style, k) == Markers[k] \o CounterText(style, k)

\* closed: SF, six counters, end_of_record.      open: the same without the end.
\* sparse: SF, LF and BRH only, end_of_record.   noisy: closed, with detail lines.
\* padded: closed, every line wrapped in white space (and a CR before the LF).
Forms == {"closed", "open", "sparse", "noisy", "padded"}

\* A block departs from the plain closed record of path "a" in at most one of
\* its path, its style and its form.
Block ==
    { b \in [path : Paths, style : Styles, form : Forms] :
        Cardinality({x \in {"path", "style", "form"} :
            b[x] # [path |-> <<"a">>, style |-> "plain", form |-> "closed"][x]}) <= 1 }

Pad(line) == <<" ", " ">> \o line \o <<" ", "\r">>

AllCounterLines(style) == [k \in 1..6 |-> CounterLine(style, k)]

\* the lines of one record
BlockLines(b) ==
    LET sf == SF \o b.path
        cs == AllCounterLines(b.style)
    IN  CASE b.form = "closed" -> <<sf>> \o cs \o <<EndOfRecord>>
          [] b.form = "open"   -> <<sf>> \o cs
          [] b.form = "sparse" -> <<sf, cs[1], cs[6], EndOfRecord>>
          [] b.form = "noisy"  ->
                <<sf, NoiseLine>> \o cs \o <<NoiseLine, <<>>, EndOfRecord>>
          [] OTHER ->
                [i \in 1..8 |-> Pad((<<sf>> \o cs \o <<EndOfRecord>>)[i])]

RECURSIVE ReportLines(_)
ReportLines(bs) ==
    IF bs = <<>> THEN <<>> ELSE BlockLines(Head(bs)) \o ReportLines(Tail(bs))

\* what precedes the first record: nothing, or header lines that look like
\* counters and an end marker (and the report then ends with a newline)
Frames == {"bare", "header"}

HeaderLines == << <<"T", "N", ":">>, LF \o <<"9">>, EndOfRecord >>

\* lines.join('\n')
RECURSIVE Join(_)
Join(ls) ==
    IF ls = <<>> THEN <<>>
    ELSE IF Len(ls) = 1 THEN Head(ls)
    ELSE Head(ls) \o <<"\n">> \o Join(Tail(ls))

Report(bs, frame) ==
    IF frame = "bare" THEN Join(ReportLines(bs))
    ELSE Join(HeaderLines \o ReportLines(bs)) \o <<"\n">>

BlockSeqs == UNION { [1..n -> Block] : n \in 0..MaxRecords }

----------------------------------------------------------------------------
(* The parser as a state machine: one step per line of the report          *)

Init ==
    /\ blocks \in BlockSeqs
    /\ \E frame \in Frames : content = Report(blocks, frame)
    /\ lines = <<>>
    /\ idx = 0
    /\ current = <<>>
    /\ files = <<>>
    /\ pc = "start"
    /\ runs = <<>>
    /\ OthersIdle

\* const line of content.split('\n')
SplitContent ==
    /\ pc = "start"
    /\ lines' = Split(content)
    /\ pc' = "loop"
    /\ UNCHANGED <<content, idx, current, files, blocks, runs>>
    /\ UNCHANGED others

\* one iteration of the for-loop
ReadLine ==
    /\ pc = "loop"
    /\ idx < Len(lines)
    /\ LET r == ParseLine(current, files, lines[idx + 1])
       IN  /\ current' = r.current
           /\ files' = r.files
    /\ idx' = idx + 1
    /\ UNCHANGED <<content, lines, pc, blocks, runs>>
    /\ UNCHANGED others

\* return files
Return ==
    /\ pc = "loop"
    /\ idx = Len(lines)
    /\ pc' = "parsed"
    /\ UNCHANGED <<content, lines, idx, current, files, blocks, runs>>
    /\ UNCHANGED others

Next == SplitContent \/ ReadLine \/ Return

Spec == Init /\ [][Next]_vars

----------------------------------------------------------------------------
(* JavaScript arithmetic on numbers that may be NaN                        *)

JsAdd(a, b) == IF a.nan \/ b.nan THEN NaN ELSE Num(a.v + b.v)

JsSub(a, b) == IF a.nan \/ b.nan THEN NaN ELSE Num(a.v - b.v)

\* a > 0, a >= n: false when a is NaN
JsPositive(a) == ~a.nan /\ a.v > 0

JsAtLeast(a, n) == ~a.nan /\ a.v >= n

\* a == b: false when either is NaN
JsEq(a, b) == ~a.nan /\ ~b.nan /\ a.v = b.v

\* Math.round(n / d) for d > 0: the nearest integer, halves upwards
RoundDiv(n, d) == (2 * n + d) \div (2 * d)

----------------------------------------------------------------------------
(* The scorer, src/analyzer.ts.  Percentages and scores are kept in        *)
(* hundredths (the code rounds both to two decimals): Num(10000) is 100.   *)
(* Weights are kept in tenths.                                             *)

Hundred == Num(10000)

\* found > 0 ? Math.round((hit / found) * 10000) / 100 : 100
OverallPct(found, hit) ==
    IF JsPositive(found)
    THEN IF hit.nan THEN NaN ELSE Num(RoundDiv(10000 * hit.v, found.v))
    ELSE Hundred

\* a total that leaves the last file out
SumButLast(fs, field) ==
    LET RECURSIVE S(_)
        S(i) == IF i = 0 THEN Num(0) ELSE JsAdd(S(i - 1), fs[i][field])
    IN  S(IF Len(fs) > 0 THEN Len(fs) - 1 ELSE 0)

\* files.reduce((acc, f) => acc.field + f.field, 0)
Sum(fs, field) ==
    LET RECURSIVE S(_)
        S(i) == IF i = 0 THEN Num(0) ELSE JsAdd(S(i - 1), fs[i][field])
    IN  S(Len(fs))

Metric(found, hit, pct) == [found |-> found, hit |-> hit, coverage |-> pct]

calculateOverallCoverage(fs) ==
    LET lf  == Sum(fs, "linesFound")
        lh  == Sum(fs, "linesHit")
        fnf == Sum(fs, "functionsFound")
        fnh == Sum(fs, "functionsHit")
        brf == Sum(fs, "branchesFound")
        brh == Sum(fs, "branchesHit")
    IN  [lines     |-> Metric(lf, lh, OverallPct(lf, lh)),
         functions |-> Metric(fnf, fnh, OverallPct(fnf, fnh)),
         branches  |-> Metric(brf, brh, OverallPct(brf, brh)),
         fileCount |-> Len(fs)]

\* a percentage that is 0 when nothing was found
FilePctZero(found, hit) ==
    IF JsPositive(found)
    THEN IF hit.nan THEN NaN ELSE Num(RoundDiv(10000 * hit.v, found.v))
    ELSE Num(0)

\* found > 0 ? (hit / found) * 100 : 100, then Math.round(x * 100) / 100
FilePct(found, hit) ==
    IF JsPositive(found)
    THEN IF hit.nan THEN NaN ELSE Num(RoundDiv(10000 * hit.v, found.v))
    ELSE Hundred

\* The gap 100 - coverage of a category is 100 * GapNum / GapDen, exactly;
\* it is NaN when found > 0 and hit is NaN.
GapIsNaN(found, hit) == JsPositive(found) /\ hit.nan

GapDen(found) == IF JsPositive(found) THEN found.v ELSE 1

\* a gap that counts the hits instead of the misses
GapNumOfHits(found, hit) == IF JsPositive(found) /\ ~hit.nan THEN hit.v ELSE 0

GapNum(found, hit) == IF JsPositive(found) /\ ~hit.nan THEN found.v - hit.v ELSE 0

\* log10(n) in units of 10^-9, n = 1..10
Log10Nano ==
    <<0, 301029996, 477121255, 602059991, 698970004,
      778151250, 845098040, 903089987, 954242509, 1000000000>>

Million == 1000000

\* a size factor below zero
SizeFactorNegative(linesFound) ==
    0 - Log10Nano[(IF linesFound.v > 1 THEN linesFound.v ELSE 1) + 1]

\* Math.log10(Math.max(linesFound, 1) + 1), in units of 10^-9 (linesFound not NaN)
SizeFactor(linesFound) ==
    Log10Nano[(IF linesFound.v > 1 THEN linesFound.v ELSE 1) + 1]

\* Math.round(priorityScore * 100) / 100, in hundredths, where priorityScore =
\* (branchGap * w.branches + functionGap * w.functions + lineGap * w.lines)
\* * sizeFactor.  With D the product of the three gap denominators and
\* n = sum of weight * GapNum * D / GapDen, the score in hundredths is
\* n * sizeFactor / (D * 10^6), rounded; the product is formed in two limbs of
\* base 10^6 to stay within the 32-bit integers of TLC.
PriorityScore(f, w) ==
    IF \/ f.linesFound.nan
       \/ GapIsNaN(f.linesFound, f.linesHit)
       \/ GapIsNaN(f.functionsFound, f.functionsHit)
       \/ GapIsNaN(f.branchesFound, f.branchesHit)
    THEN NaN
    ELSE LET dl == GapDen(f.linesFound)
             df == GapDen(f.functionsFound)
             db == GapDen(f.branchesFound)
             d  == dl * df * db
             n  == w.branches * GapNum(f.branchesFound, f.branchesHit) * dl * df
                   + w.functions * GapNum(f.functionsFound, f.functionsHit) * dl * db
                   + w.lines * GapNum(f.linesFound, f.linesHit) * df * db
             l  == SizeFactor(f.linesFound)
             hi == n * (l \div Million) + (n * (l % Million)) \div Million
             lo == (n * (l % Million)) % Million
         IN  Num((2 * hi + d + (2 * lo) \div Million) \div (2 * d))

analyzeFile(f, w) ==
    [file      |-> f.file,
     lines     |-> Metric(f.linesFound, f.linesHit,
                          FilePct(f.linesFound, f.linesHit)),
     functions |-> Metric(f.functionsFound, f.functionsHit,
                          FilePct(f.functionsFound, f.functionsHit)),
     branches  |-> Metric(f.branchesFound, f.branchesHit,
                          FilePct(f.branchesFound, f.branchesHit)),
     priorityScore     |-> PriorityScore(f, w),
     uncoveredLines    |-> JsSub(f.linesFound, f.linesHit),
     uncoveredBranches |-> JsSub(f.branchesFound, f.branchesHit)]

\* files.filter(f => f.linesFound >= minLines)
FilterMinLines(fs, minLines) ==
    SelectSeq(fs, LAMBDA f : JsAtLeast(f.linesFound, minLines))

\* the comparator (a, b) => b.priorityScore - a.priorityScore; sort reads a NaN
\* result as 0
Compare(a, b) ==
    IF a.priorityScore.nan \/ b.priorityScore.nan THEN 0
    ELSE b.priorityScore.v - a.priorityScore.v

\* Array.prototype.sort(comparator) as the engine of the program's runtime
\* (V8, array-sort.tq) runs it on fewer than 64 elements: the array is one
\* TimSort run, made of the longest ordered prefix (reversed when strictly
\* descending) and extended by binary insertion.  With a consistent comparator
\* this is a stable sort; a comparator that reads NaN as 0 is not consistent.

\* the array back to front
Reverse(as) == [i \in 1..Len(as) |-> as[Len(as) + 1 - i]]

\* CountAndMakeRun: the first comparison says whether the prefix descends
RunDescending(as) == Compare(as[2], as[1]) < 0

\* CountAndMakeRun: the length of the ordered prefix (at least 2)
RunLength(as) ==
    LET ok(i) == IF RunDescending(as) THEN Compare(as[i], as[i - 1]) < 0
                 ELSE Compare(as[i], as[i - 1]) >= 0
    IN  CHOOSE r \in 2..Len(as) :
            /\ \A i \in 3..r : ok(i)
            /\ r = Len(as) \/ ~ok(r + 1)

\* CountAndMakeRun: a descending prefix is reversed in place
MakeRun(as) ==
    IF RunDescending(as)
    THEN Reverse(SubSeq(as, 1, RunLength(as))) \o SubSeq(as, RunLength(as) + 1, Len(as))
    ELSE as

\* BinaryInsertionSort, the while-loop: where pivot belongs in w[left..right)
\* (0-based indices)
RECURSIVE BinarySearch(_, _, _, _)
BinarySearch(w, pivot, left, right) ==
    IF left < right
    THEN LET mid == left + (right - left) \div 2
         IN  IF Compare(pivot, w[mid + 1]) < 0
             THEN BinarySearch(w, pivot, left, mid)
             ELSE BinarySearch(w, pivot, mid + 1, right)
    ELSE left

\* BinaryInsertionSort, the for-loop from start (0-based) to the end
RECURSIVE BinaryInsertionSort(_, _)
BinaryInsertionSort(w, start) ==
    IF start >= Len(w) THEN w
    ELSE LET pivot == w[start + 1]
             left  == BinarySearch(w, pivot, 0, start)
         IN  BinaryInsertionSort(
                 SubSeq(w, 1, left) \o <<pivot>> \o SubSeq(w, left + 1, start)
                     \o SubSeq(w, start + 2, Len(w)),
                 start + 1)

\* .sort((a, b) => b.priorityScore - a.priorityScore)
SortByScore(as) ==
    IF Len(as) < 2 THEN as ELSE BinaryInsertionSort(MakeRun(as), RunLength(as))

\* files.filter(...).map(f => analyzeFile(f, weights)).sort(...)
Analyzed(fs, w, minLines) ==
    LET kept == FilterMinLines(fs, minLines)
    IN  SortByScore([i \in 1..Len(kept) |-> analyzeFile(kept[i], w)])

\* as.slice(0, n) for an integer n: a negative n counts from the end
Slice0(as, n) ==
    LET end == IF n < 0 THEN (IF Len(as) + n > 0 THEN Len(as) + n ELSE 0)
               ELSE (IF n < Len(as) THEN n ELSE Len(as))
    IN  SubSeq(as, 1, end)

\* a top cut that tests top !== null instead of its truthiness
ApplyTopNotNull(as, top) == IF top # <<>> THEN Slice0(as, top[1]) ELSE as

\* top ? analyzed.slice(0, top) : analyzed      (top: <<>> for null, <<n>>)
ApplyTop(as, top) ==
    IF top # <<>> /\ top[1] # 0 THEN Slice0(as, top[1]) ELSE as

\* an aggregate taken after the filter
OverallOfFiltered(fs, minLines) ==
    calculateOverallCoverage(FilterMinLines(fs, minLines))

\* const overall = calculateOverallCoverage(files): over all the files
Overall(fs, minLines) == calculateOverallCoverage(fs)

\* the locals of analyzeCoverage: overall, analyzed and results
AnalyzeSteps(fs, w, minLines, top) ==
    LET analyzed == Analyzed(fs, w, minLines)
    IN  [overall  |-> Overall(fs, minLines),
         analyzed |-> analyzed,
         results  |-> ApplyTop(analyzed, top)]

\* return { overall, files: results }
Returned(st) == [overall |-> st.overall, files |-> st.results]

analyzeCoverage(fs, w, minLines, top) == Returned(AnalyzeSteps(fs, w, minLines, top))

----------------------------------------------------------------------------
(* The scorer run on parsed reports                                        *)

MaxFiles == 3

\* weights in tenths: the defaults 0.5 / 0.3 / 0.2, and lines only
WeightsSet ==
    { [branches |-> 5, functions |-> 3, lines |-> 2],
      [branches |-> 0, functions |-> 0, lines |-> 10] }

MinLinesSet == {-1, 0, 3}

TopSet == { <<>>, <<-1>>, <<0>>, <<2>> }

\* the path of the i-th record of a report
FilePath(i) == <<"f", Digits[i + 1]>>

InitAnalyze ==
    /\ \E n \in 0..MaxFiles : \E st \in [1..n -> ProfileStyles] :
          blocks = [i \in 1..n |->
                       [path |-> FilePath(i), style |-> st[i], form |-> "closed"]]
    /\ content = Report(blocks, "bare")
    /\ lines = <<>>
    /\ idx = 0
    /\ current = <<>>
    /\ files = <<>>
    /\ pc = "start"
    /\ runs = <<>>
    /\ OthersIdle

\* const files = parseLcov(lcovContent): the whole call; its locals are gone
\* when it returns
ParseReport ==
    /\ pc = "start"
    /\ files' = parseLcov(content)
    /\ pc' = "parsed"
    /\ UNCHANGED <<content, lines, idx, current, blocks, runs>>
    /\ UNCHANGED others

\* one call analyzeCoverage(files, w, minLines, top): its arguments, the sorted
\* list before the top cut, and what it returns
Run(w, minLines, top) ==
    LET st == AnalyzeSteps(files, w, minLines, top)
    IN  [weights |-> w, minLines |-> minLines, top |-> top,
         analyzed |-> st.analyzed,
         result |-> Returned(st)]

\* analyzeCoverage(files, weights, minLines, top)
Analyze ==
    /\ pc = "parsed"
    /\ \E w \in WeightsSet, m \in MinLinesSet, t \in TopSet :
          runs' = <<Run(w, m, t)>>
    /\ pc' = "analyzed"
    /\ UNCHANGED <<content, lines, idx, current, files, blocks>>
    /\ UNCHANGED others

\* a second call on the same tallies and weights
AnalyzeAgain ==
    /\ pc = "analyzed"
    /\ \E m \in MinLinesSet, t \in TopSet :
          runs' = Append(runs, Run(runs[1].weights, m, t))
    /\ pc' = "reanalyzed"
    /\ UNCHANGED <<content, lines, idx, current, files, blocks>>
    /\ UNCHANGED others

NextAnalyze == ParseReport \/ Analyze \/ AnalyzeAgain

SpecAnalyze == InitAnalyze /\ [][NextAnalyze]_vars

----------------------------------------------------------------------------
(* Claims about parseLcov                                                  *)

\* the report is nothing but records, each an SF: line with a path, the six
\* counter lines with non-negative decimal integers, then end_of_record
WellFormedReport ==
    /\ content = Report(blocks, "bare")
    /\ \A i \in 1..Len(blocks) :
          blocks[i].form = "closed" /\ blocks[i].style \in NumericStyles

\* the six counters of tally t are those written in block b
CountersAsWritten(t, b) ==
    \A k \in 1..6 : t[Fields[k]] = Num(CounterValue(b.style, k))

EndsInWhiteSpace(path) == path # <<>> /\ path[Len(path)] \in WhiteSpace

\* C1 as stated: N well-formed records give exactly N tallies, in input order,
\* the i-th with the path and the six counters written in the i-th record.
C1_RoundTripAsWritten ==
    (pc = "parsed" /\ WellFormedReport) =>
        /\ Len(files) = Len(blocks)
        /\ \A i \in 1..Len(blocks) :
              /\ files[i].file = blocks[i].path
              /\ CountersAsWritten(files[i], blocks[i])

\* C1, amended: N well-formed records give exactly N tallies, in input order,
\* the i-th with the six counters written in the i-th record and with the path
\* written there less the white space at its end (so the path itself when it
\* does not end in white space).
C1_RoundTrip ==
    (pc = "parsed" /\ WellFormedReport) =>
        /\ Len(files) = Len(blocks)
        /\ \A i \in 1..Len(blocks) :
              /\ files[i].file = TrimEnd(blocks[i].path)
              /\ ~EndsInWhiteSpace(blocks[i].path) => files[i].file = blocks[i].path
              /\ CountersAsWritten(files[i], blocks[i])

\* two well-formed records parsed, with different paths (one starting with
\* white space) and different multi-digit and single-digit counters
C1_Witness ==
    /\ pc = "parsed"
    /\ WellFormedReport
    /\ Len(blocks) = 2
    /\ Len(files) = 2
    /\ blocks[1].style = "wide"
    /\ blocks[2].path = <<" ", "b">>

\* the blocks that reach their end_of_record line, in input order
ClosedBlocks == SelectSeq(blocks, LAMBDA b : b.form # "open")

\* counter k has a line in block b
Written(b, k) == b.form # "sparse" \/ k \in {1, 6}

\* C2: a record that does not reach end_of_record before the next SF: line or
\* the end of the input is never emitted, and nothing read for it shows in an
\* emitted tally: the tallies are those of the closed records, in order, each
\* with its own path, its own counters where it wrote them (numeric styles)
\* and 0 where it wrote none.
C2_UnclosedDiscarded ==
    pc = "parsed" =>
        /\ Len(files) = Len(ClosedBlocks)
        /\ \A j \in 1..Len(ClosedBlocks) :
              LET b == ClosedBlocks[j]
              IN  /\ files[j].file = TrimEnd(b.path)
                  /\ \A k \in 1..6 :
                        /\ ~Written(b, k) => files[j][Fields[k]] = Num(0)
                        /\ (Written(b, k) /\ b.style \in NumericStyles) =>
                              files[j][Fields[k]] = Num(CounterValue(b.style, k))

\* an unclosed record with non-zero counters is followed by a record that
\* writes only two of its counters, and the parse has ended
C2_Witness ==
    /\ pc = "parsed"
    /\ Len(blocks) = 2
    /\ blocks[1].form = "open"
    /\ blocks[1].style \in NumericStyles
    /\ blocks[2].form = "sparse"
    /\ Len(files) = 1

\* C3: a counter line whose value yields no integer (non-numeric text, empty
\* text, NaN, undefined, null) leaves that counter at 0 in the emitted tally,
\* never NaN.
C3_MalformedIsZero ==
    pc = "parsed" =>
        \A j \in 1..Len(ClosedBlocks) :
            ClosedBlocks[j].style = "bad" =>
                /\ j <= Len(files)
                /\ \A k \in 1..6 :
                      Written(ClosedBlocks[j], k) => files[j][Fields[k]] = Num(0)

----------------------------------------------------------------------------
(* Claims about analyzeCoverage, analyzeFile and calculateOverallCoverage  *)

Categories == {"lines", "functions", "branches"}

Min(a, b) == IF a < b THEN a ELSE b

\* a.priorityScore >= b.priorityScore and a.priorityScore > b.priorityScore, as
\* JavaScript compares: false when either is NaN
ScoreAtLeast(a, b) ==
    ~a.priorityScore.nan /\ ~b.priorityScore.nan
        /\ a.priorityScore.v >= b.priorityScore.v

ScoreAbove(a, b) ==
    ~a.priorityScore.nan /\ ~b.priorityScore.nan
        /\ a.priorityScore.v > b.priorityScore.v

\* C4: two calls of analyzeCoverage on the same tallies return the same
\* overall aggregate (fileCount and the found, hit and coverage of the three
\* categories), whatever minLines and top each call was given.
C4_OverallIndependent ==
    \A i, j \in 1..Len(runs) : runs[i].result.overall = runs[j].result.overall

\* two calls with different minLines and top that returned different numbers
\* of files out of at least two tallies
C4_Witness ==
    /\ Len(runs) = 2
    /\ runs[1].minLines # runs[2].minLines
    /\ runs[1].top # runs[2].top
    /\ Len(runs[1].result.files) # Len(runs[2].result.files)
    /\ runs[1].result.overall.fileCount >= 2
    /\ runs[1].result.overall.lines.found = Num(6)

\* C5: the files analyzeCoverage returns for tallies parsed from a report are
\* in non-increasing order of priorityScore.
C5_SortedDescending ==
    \A r \in 1..Len(runs) :
        LET fs == runs[r].result.files
        IN  \A i, j \in 1..Len(fs) : i < j => ScoreAtLeast(fs[i], fs[j])

\* C6: before the top cut the files kept are exactly the parsed tallies with
\* linesFound >= minLines, each once; with minLines 0 or negative every
\* parsed tally is kept.
C6_FilterMinLines ==
    \A r \in 1..Len(runs) :
        LET as   == runs[r].analyzed
            kept == {i \in 1..Len(files) :
                        JsAtLeast(files[i].linesFound, runs[r].minLines)}
        IN  /\ Len(as) = Cardinality(kept)
            /\ {as[i].file : i \in 1..Len(as)} = {files[i].file : i \in kept}
            /\ runs[r].minLines <= 0 => Len(as) = Len(files)

\* C7: with a positive integer top the files returned are the first
\* min(top, k) entries of the sorted list of the k tallies that passed the
\* filter, so that no omitted file has a higher priorityScore than a
\* returned one; with top null all k entries are returned.
C7_TopCut ==
    \A r \in 1..Len(runs) :
        LET as  == runs[r].analyzed
            fs  == runs[r].result.files
            top == runs[r].top
        IN  /\ top = <<>> => fs = as
            /\ (top # <<>> /\ top[1] > 0) =>
                  /\ fs = SubSeq(as, 1, Min(top[1], Len(as)))
                  /\ \A o \in (Len(fs) + 1)..Len(as) : \A i \in 1..Len(fs) :
                        ~ScoreAbove(as[o], fs[i])

\* C8 as stated: with top 0 or negative nothing is cut off.
C8_NonPositiveTopKeepsAll ==
    \A r \in 1..Len(runs) :
        (runs[r].top # <<>> /\ runs[r].top[1] <= 0) =>
            runs[r].result.files = runs[r].analyzed

\* C8, amended: with top 0 nothing is cut off; with a negative top -n the
\* files returned are the sorted list without its last n entries (none when
\* it has at most n).
C8_NonPositiveTop ==
    \A r \in 1..Len(runs) :
        LET as  == runs[r].analyzed
            fs  == runs[r].result.files
            top == runs[r].top
        IN  /\ (top # <<>> /\ top[1] = 0) => fs = as
            /\ (top # <<>> /\ top[1] < 0) =>
                  fs = SubSeq(as, 1, IF Len(as) + top[1] > 0 THEN Len(as) + top[1] ELSE 0)

\* a call with top 0 and a call with a negative top, on a list of at least two
\* files that passed the filter
C8_Witness ==
    /\ Len(runs) = 2
    /\ runs[1].top = <<0>>
    /\ Len(runs[1].result.files) >= 2
    /\ runs[2].top # <<>> /\ runs[2].top[1] < 0
    /\ Len(runs[2].analyzed) >= 2
    /\ Len(runs[2].result.files) = Len(runs[2].analyzed) - 1

\* C9: in analyzeFile and in calculateOverallCoverage, a category with
\* found == 0 has coverage exactly 100 (never NaN); the aggregate of no
\* tallies has 100 in the three categories.
C9_ZeroFoundIsHundred ==
    \A r \in 1..Len(runs) : \A c \in Categories :
        LET as == runs[r].analyzed
            ov == runs[r].result.overall
        IN  /\ \A i \in 1..Len(as) :
                  JsEq(as[i][c].found, Num(0)) => as[i][c].coverage = Hundred
            /\ JsEq(ov[c].found, Num(0)) => ov[c].coverage = Hundred
            /\ files = <<>> => ov[c].coverage = Hundred

\* a file with nothing found in any category was scored, one with no
\* functions found and an unreadable hit count too, and the aggregate has
\* lines but no functions found
C9_Witness ==
    /\ Len(runs) >= 1
    /\ \E i \in 1..Len(runs[1].analyzed) :
          \A c \in Categories : runs[1].analyzed[i][c].found = Num(0)
    /\ \E i \in 1..Len(runs[1].analyzed) :
          /\ runs[1].analyzed[i].functions.found = Num(0)
          /\ runs[1].analyzed[i].functions.hit = NaN
    /\ runs[1].result.overall.functions.found = Num(0)
    /\ runs[1].result.overall.functions.hit = NaN
    /\ runs[1].result.overall.lines.found = Num(2)

\* hit == found in the three categories
C10_AllHit(a) == \A c \in Categories : JsEq(a[c].hit, a[c].found)

\* C10: a tally with hit == found in the three categories gets
\* priorityScore 0 from analyzeFile, whatever the weights and linesFound.
C10_PerfectIsZero ==
    \A r \in 1..Len(runs) :
        \A i \in 1..Len(runs[r].analyzed) :
            C10_AllHit(runs[r].analyzed[i]) =>
                runs[r].analyzed[i].priorityScore = Num(0)

\* a fully covered file with lines and one with none were scored together
\* with a file that has a gap, under the lines-only weights
C10_Witness ==
    /\ Len(runs) >= 1
    /\ runs[1].weights.lines = 10
    /\ \E i, j, k \in 1..Len(runs[1].analyzed) :
          /\ C10_AllHit(runs[1].analyzed[i])
          /\ runs[1].analyzed[i].lines.found = Num(4)
          /\ C10_AllHit(runs[1].analyzed[j])
          /\ runs[1].analyzed[j].lines.found = Num(0)
          /\ ~runs[1].analyzed[k].priorityScore.nan
          /\ runs[1].analyzed[k].priorityScore.v > 0

----------------------------------------------------------------------------
(* analyzeFile on tallies with any non-negative counters: a tally is       *)
(* scored, then a variant of it that differs in one category is scored     *)
(* with the same weights                                                   *)

\* largest linesFound and linesHit of a tally
MaxLineCount == 4

\* largest found and hit of functions and branches
MaxCount == 2

Tally(lf, lh, fnf, fnh, brf, brh) ==
    [file |-> <<"t">>,
     linesFound     |-> Num(lf),  linesHit     |-> Num(lh),
     functionsFound |-> Num(fnf), functionsHit |-> Num(fnh),
     branchesFound  |-> Num(brf), branchesHit  |-> Num(brh)]

\* the tally t with the found and hit of one category replaced
WithCategory(t, cat, fnd, hit) ==
    CASE cat = "lines"     -> [t EXCEPT !.linesFound = Num(fnd), !.linesHit = Num(hit)]
      [] cat = "functions" -> [t EXCEPT !.functionsFound = Num(fnd), !.functionsHit = Num(hit)]
      [] cat = "branches"  -> [t EXCEPT !.branchesFound = Num(fnd), !.branchesHit = Num(hit)]

CategoryMax(cat) == IF cat = "lines" THEN MaxLineCount ELSE MaxCount

\* one call analyzeFile(t, w)
Scored(t, w) == [tally |-> t, weights |-> w, result |-> analyzeFile(t, w)]

InitScore ==
    /\ \E lf, lh \in 0..MaxLineCount : \E fnf, fnh, brf, brh \in 0..MaxCount :
          files = <<Tally(lf, lh, fnf, fnh, brf, brh)>>
    /\ content = <<>>
    /\ lines = <<>>
    /\ idx = 0
    /\ current = <<>>
    /\ blocks = <<>>
    /\ runs = <<>>
    /\ pc = "start"
    /\ OthersIdle

\* analyzeFile(file, weights)
ScoreFile ==
    /\ pc = "start"
    /\ \E w \in WeightsSet : scored' = <<Scored(files[1], w)>>
    /\ pc' = "scored"
    /\ UNCHANGED <<content, lines, idx, current, files, blocks, runs>>
    /\ UNCHANGED <<cacheVars, cliVars, uriVars>>

\* analyzeFile(variant, weights) for a tally that differs in one category
ScoreVariant ==
    /\ pc = "scored"
    /\ \E cat \in {"lines", "functions", "branches"} :
          \E fnd, hit \in 0..CategoryMax(cat) :
             LET t == WithCategory(files[1], cat, fnd, hit)
             IN  /\ files' = Append(files, t)
                 /\ scored' = Append(scored, Scored(t, scored[1].weights))
    /\ pc' = "compared"
    /\ UNCHANGED <<content, lines, idx, current, blocks, runs>>
    /\ UNCHANGED <<cacheVars, cliVars, uriVars>>

NextScore == ScoreFile \/ ScoreVariant

SpecScore == InitScore /\ [][NextScore]_vars

----------------------------------------------------------------------------
(* Claims about analyzeFile and calculateOverallCoverage                   *)

\* the exact coverage of a category as a fraction <<num, den>>, den > 0:
\* hit / found when found > 0, else 1 (100 %)
Cov(t, cat) ==
    LET fnd == t[IF cat = "lines" THEN "linesFound"
                 ELSE IF cat = "functions" THEN "functionsFound" ELSE "branchesFound"].v
        hit == t[IF cat = "lines" THEN "linesHit"
                 ELSE IF cat = "functions" THEN "functionsHit" ELSE "branchesHit"].v
    IN  IF fnd > 0 THEN <<hit, fnd>> ELSE <<1, 1>>

CovSame(a, b, cat) == Cov(a, cat)[1] * Cov(b, cat)[2] = Cov(b, cat)[1] * Cov(a, cat)[2]

\* the coverage of cat is lower in b than in a
CovLower(a, b, cat) == Cov(b, cat)[1] * Cov(a, cat)[2] < Cov(a, cat)[1] * Cov(b, cat)[2]

NonNegativeWeights(w) == w.branches >= 0 /\ w.functions >= 0 /\ w.lines >= 0

\* C11: analyzeFile gives every tally with non-negative integer counters, hit
\* above found included, a priorityScore >= 0 when the weights are non-negative.
C11_ScoreNonNegative ==
    \A i \in 1..Len(scored) :
        NonNegativeWeights(scored[i].weights) =>
            /\ ~scored[i].result.priorityScore.nan
            /\ scored[i].result.priorityScore.v >= 0

\* C12: of two tallies with the same linesFound, scored with the same
\* non-negative weights, where one category's coverage is lower in the second
\* and the other two categories' coverages are the same, the second has a
\* priorityScore at least that of the first.
C12_LowerCoverageNeverLowersScore ==
    Len(scored) = 2 =>
        LET a == scored[1]
            b == scored[2]
        IN  (/\ NonNegativeWeights(a.weights)
             /\ a.tally.linesFound = b.tally.linesFound
             /\ \E cat \in Categories :
                   /\ CovLower(a.tally, b.tally, cat)
                   /\ \A o \in Categories \ {cat} : CovSame(a.tally, b.tally, o))
            => ScoreAtLeast(b.result, a.result)

\* lines coverage fell from 3/4 to 1/4 and the score rose; branch coverage
\* fell at a branch weight of 0 and the score stayed
C12_Witness ==
    /\ Len(scored) = 2
    /\ scored[1].tally.linesFound = Num(4)
    /\ scored[2].tally.linesFound = Num(4)
    /\ scored[1].tally.linesHit = Num(3)
    /\ scored[2].tally.linesHit = Num(1)
    /\ \A o \in {"functions", "branches"} : CovSame(scored[1].tally, scored[2].tally, o)
    /\ ScoreAbove(scored[2].result, scored[1].result)

\* C13: of two tallies with the same three coverages, scored with the same
\* non-negative weights, the one with the larger linesFound has a
\* priorityScore at least that of the other, down to linesFound = 0.
C13_LargerFileNeverLowersScore ==
    Len(scored) = 2 =>
        LET a == scored[1]
            b == scored[2]
        IN  (/\ NonNegativeWeights(a.weights)
             /\ \A cat \in Categories : CovSame(a.tally, b.tally, cat)
             /\ b.tally.linesFound.v > a.tally.linesFound.v)
            => ScoreAtLeast(b.result, a.result)

\* the total of one counter over the files, summed from the last file; CounterNaN
\* says that some file has NaN for it
CounterTotal(fs, field) ==
    LET RECURSIVE T(_)
        T(i) == IF i > Len(fs) THEN 0 ELSE fs[i][field].v + T(i + 1)
    IN  T(1)

CounterNaN(fs, field) == \E i \in 1..Len(fs) : fs[i][field].nan

TotalIs(x, fs, field) ==
    IF CounterNaN(fs, field) THEN x.nan
    ELSE ~x.nan /\ x.v = CounterTotal(fs, field)

\* C14: the aggregate analyzeCoverage returns (that of calculateOverallCoverage
\* on all the tallies) has, for lines, functions and branches, found and hit
\* equal to the sums of that counter over every tally, and fileCount equal to
\* the number of tallies.
C14_OverallSums ==
    \A i \in 1..Len(runs) :
        LET o == runs[i].result.overall
        IN  /\ TotalIs(o.lines.found, files, "linesFound")
            /\ TotalIs(o.lines.hit, files, "linesHit")
            /\ TotalIs(o.functions.found, files, "functionsFound")
            /\ TotalIs(o.functions.hit, files, "functionsHit")
            /\ TotalIs(o.branches.found, files, "branchesFound")
            /\ TotalIs(o.branches.hit, files, "branchesHit")
            /\ o.fileCount = Len(files)

\* three tallies with different counters, one of them filtered out, and the
\* totals 10 found and 7 hit lines
C14_Witness ==
    /\ Len(runs) >= 1
    /\ Len(files) = 3
    /\ Len(runs[1].result.files) < 3
    /\ runs[1].result.overall.fileCount = 3
    /\ runs[1].result.overall.lines.found = Num(10)
    /\ runs[1].result.overall.lines.hit = Num(7)
    /\ runs[1].result.overall.branches.found = Num(6)

----------------------------------------------------------------------------
(* discoverCoverageFile, src/main.ts.  A path is the sequence of its       *)
(* segments; an absolute path starts with the segment "/".                 *)

COVERAGE_SEARCH_PATHS ==
    << <<"coverage", "lcov.info">>,
       <<".coverage", "lcov.info">>,
       <<"coverage", "lcov", "lcov.info">>,
       <<"lcov.info">>,
       <<".nyc_output", "lcov.info">>,
       <<"test-results", "lcov.info">> >>

\* process.cwd()
Cwd == <<"/", "proj">>

\* resolve(cwd, path): an absolute path stays, a relative one goes under cwd
Resolve(cwd, path) == IF path # <<>> /\ path[1] = "/" THEN path ELSE cwd \o path

\* the conventional locations under cwd
Candidates == [i \in 1..Len(COVERAGE_SEARCH_PATHS) |-> Resolve(Cwd, COVERAGE_SEARCH_PATHS[i])]

\* a probe that finds every path
existsSyncAlways(path, dsk) == TRUE

\* existsSync(path)
existsSync(path, dsk) == path \in dsk.exists

\* one iteration of the for-loop of discoverCoverageFile: push the next
\* candidate, return when it exists; res is <<>> while the loop goes on
ProbeNext(srch, dsk) ==
    LET fullPath == Resolve(Cwd, COVERAGE_SEARCH_PATHS[Len(srch) + 1])
        pushed   == Append(srch, fullPath)
    IN  [searched |-> pushed,
         res |-> IF existsSync(fullPath, dsk)
                 THEN <<[null |-> FALSE, found |-> fullPath, searched |-> pushed]>>
                 ELSE <<>>]

\* return null
NullResult == [null |-> TRUE, found |-> <<>>, searched |-> <<>>]

\* the whole call: what discoverCoverageFile() returns on the disk dsk
RECURSIVE DiscoverFrom(_, _)
DiscoverFrom(srch, dsk) ==
    IF Len(srch) = Len(COVERAGE_SEARCH_PATHS) THEN NullResult
    ELSE LET r == ProbeNext(srch, dsk)
         IN  IF r.res # <<>> THEN r.res[1] ELSE DiscoverFrom(r.searched, dsk)

discoverCoverageFile(dsk) == DiscoverFrom(<<>>, dsk)

\* other files of the project directory
OtherPaths == { Cwd \o <<"src", "lcov.info">>, Cwd \o <<"coverage", "lcov.dat">> }

CandidateSet == { Candidates[i] : i \in 1..Len(Candidates) }

\* a disk without a settings file
PlainDisk(paths) == [exists |-> paths, settings |-> <<>>, unreadable |-> {}, report |-> <<>>]

InitDiscover ==
    /\ \E here \in SUBSET CandidateSet, there \in SUBSET OtherPaths :
          disk = PlainDisk(here \cup there)
    /\ searched = <<>>
    /\ discovered = <<>>
    /\ pc = "discover"
    /\ content = <<>>
    /\ lines = <<>>
    /\ idx = 0
    /\ current = <<>>
    /\ files = <<>>
    /\ blocks = <<>>
    /\ runs = <<>>
    /\ scored = <<>>
    /\ argv = <<>>
    /\ config = <<>>
    /\ exit = <<>>
    /\ uri = <<>>
    /\ parsed = <<>>
    /\ CacheIdle

\* one iteration of the loop over COVERAGE_SEARCH_PATHS
Probe ==
    /\ pc = "discover"
    /\ Len(searched) < Len(COVERAGE_SEARCH_PATHS)
    /\ LET r == ProbeNext(searched, disk)
       IN  /\ searched' = r.searched
           /\ discovered' = r.res
           /\ pc' = IF r.res # <<>> THEN "returned" ELSE "discover"
    /\ UNCHANGED <<content, lines, idx, current, files, blocks, runs>>
    /\ UNCHANGED <<cacheVars, scored, argv, disk, config, exit, uriVars>>

\* return null, after the loop
ReturnNull ==
    /\ pc = "discover"
    /\ Len(searched) = Len(COVERAGE_SEARCH_PATHS)
    /\ discovered' = <<NullResult>>
    /\ pc' = "returned"
    /\ UNCHANGED <<content, lines, idx, current, files, blocks, runs>>
    /\ UNCHANGED <<cacheVars, scored, argv, disk, config, exit, searched, uriVars>>

NextDiscover == Probe \/ ReturnNull

SpecDiscover == InitDiscover /\ [][NextDiscover]_vars

\* the candidates that exist on the disk, by their place in the search order
Existing == { i \in 1..Len(Candidates) : Candidates[i] \in disk.exists }

\* C17: discoverCoverageFile returns null exactly when none of the six
\* conventional paths exists; otherwise found is the first of them, in search
\* order, that exists, searched is the candidates from the first up to and
\* including found, and no later candidate was probed.
C17_FirstExistingWins ==
    pc = "returned" =>
        LET r == discovered[1]
        IN  /\ r.null <=> Existing = {}
            /\ ~r.null =>
                  LET k == CHOOSE i \in Existing : \A j \in Existing : i <= j
                  IN  /\ r.found = Candidates[k]
                      /\ r.searched = SubSeq(Candidates, 1, k)
                      /\ r.searched[Len(r.searched)] = r.found
                      /\ searched = r.searched

\* lcov.info in the project root is found although two later candidates and
\* an unrelated file exist as well
C17_Witness ==
    /\ pc = "returned"
    /\ ~discovered[1].null
    /\ discovered[1].found = Cwd \o <<"lcov.info">>
    /\ Len(discovered[1].searched) = 4
    /\ Cardinality(Existing) = 3
    /\ Cwd \o <<"src", "lcov.info">> \in disk.exists

----------------------------------------------------------------------------
(* The command line, src/main.ts: main merges the command line, the        *)
(* settings file and the defaults, runAnalysis finds and reads the report, *)
(* parses it, scores it and prints.  An optional value is <<>> when        *)
(* undefined and <<v>> otherwise.                                          *)

DefaultWeightsText == <<"0", ".", "5", ",", "0", ".", "3", ",", "0", ".", "2">>

DefaultMinLines == 10

DEFAULTS ==
    [coveragePath |-> << <<"coverage", "lcov.info">> >>,
     weights      |-> <<DefaultWeightsText>>,
     minLines     |-> <<DefaultMinLines>>,
     json         |-> <<FALSE>>,
     top          |-> <<>>]

\* a Partial<Config> without any key
NoConfig ==
    [coveragePath |-> <<>>, weights |-> <<>>, minLines |-> <<>>, json |-> <<>>, top |-> <<>>]

ConfigKeys == {"coveragePath", "weights", "minLines", "json", "top"}

\* s.split(sep) for a one-character separator
SplitOn(s, sep) ==
    LET at == {i \in 1..Len(s) : s[i] = sep}
        pos(j) == IF j = 0 THEN 0
                  ELSE IF j > Cardinality(at) THEN Len(s) + 1
                  ELSE CHOOSE q \in at : Cardinality({r \in at : r <= q}) = j
    IN  [j \in 1..(Cardinality(at) + 1) |-> SubSeq(s, pos(j - 1) + 1, pos(j) - 1)]

\* Number(text), in tenths, for texts of digits with at most one digit after a
\* decimal point: white space is trimmed, the empty text is 0, anything else
\* that is not a decimal numeral is NaN
JsNumberTenths(text) ==
    LET t    == Trim(text)
        dots == {i \in 1..Len(t) : t[i] = "."}
        dot  == IF dots = {} THEN Len(t) + 1 ELSE CHOOSE i \in dots : \A j \in dots : i <= j
        int  == SubSeq(t, 1, dot - 1)
        frac == SubSeq(t, dot + 1, Len(t))
    IN  IF t = <<>> THEN Num(0)
        ELSE IF /\ \A i \in 1..Len(int) : IsDigit(int[i])
                /\ \A i \in 1..Len(frac) : IsDigit(frac[i])
                /\ Len(int) + Len(frac) > 0
                /\ Len(frac) <= 1
        THEN Num(10 * DigitsValue(int, 0) + DigitsValue(frac, 0))
        ELSE NaN

\* parseWeights(weightsStr): ok is FALSE when it throws
parseWeights(weightsStr) ==
    LET parts == [i \in 1..Len(SplitOn(weightsStr, ",")) |->
                     JsNumberTenths(SplitOn(weightsStr, ",")[i])]
    IN  IF Len(parts) # 3 \/ \E i \in 1..Len(parts) : parts[i].nan
        THEN [ok |-> FALSE, weights |-> <<>>]
        ELSE [ok |-> TRUE,
              weights |-> [branches |-> parts[1].v, functions |-> parts[2].v,
                           lines |-> parts[3].v]]

\* program.opts() after program.parse(): an option the user did not give has
\* the default it was declared with, --top has none
programOpts(a) ==
    [weights  |-> IF a.weights # <<>> THEN a.weights ELSE DEFAULTS.weights,
     minLines |-> IF a.minLines # <<>> THEN a.minLines
                  ELSE <<ToDecimal(DEFAULTS.minLines[1])>>,
     json     |-> IF a.json THEN <<TRUE>> ELSE DEFAULTS.json,
     top      |-> a.top]

\* readConfigFile(cliArgs.config): the parsed settings file, {} without one
readConfigFile(dsk) == IF dsk.settings # <<>> THEN dsk.settings[1] ELSE NoConfig

\* a text option is truthy when it is there and not empty
Truthy(opt) == opt # <<>> /\ opt[1] # <<>>

\* { ...DEFAULTS, ...fileConfig, ...(coveragePath && { coveragePath }), ... }:
\* the Config that main hands to runAnalysis
Merge(a, fileConfig, parsedMinLines, parsedTop) ==
    LET cliArgs == programOpts(a)
        pick(cli, key) == IF cli # <<>> THEN cli
                          ELSE IF fileConfig[key] # <<>> THEN fileConfig[key]
                          ELSE DEFAULTS[key]
    IN  [coveragePath |-> pick(a.coveragePath, "coveragePath"),
         weights      |-> pick(IF Truthy(cliArgs.weights) THEN cliArgs.weights ELSE <<>>,
                               "weights"),
         minLines     |-> pick(parsedMinLines, "minLines"),
         json         |-> pick(cliArgs.json, "json"),
         top          |-> pick(parsedTop, "top")]

\* process.exit(code) after the message written to stderr
Exit(code, message) == <<[code |-> code, stderr |-> message]>>

\* if (files.length === 0) { warning; process.exit(0) }
ExitAtZeroRecords(n) ==
    IF n = 0 THEN Exit(0, "Warning: No coverage data found in the file") ELSE <<>>

\* resolveCoveragePath(inputPath)
resolveCoveragePath(inputPath) == Resolve(Cwd, inputPath)

----------------------------------------------------------------------------
(* The command lines, settings files and disks the model runs main on      *)

CliPath == <<"my", "lcov.info">>

SettingsPath == <<"/", "ci", "lcov.info">>

LinesOnlyText == <<"0", ",", "0", ",", "1">>

SettingsWeightsText == <<"0", ".", "6", ",", "0", ".", "2", ",", "0", ".", "2">>

BadWeightsText == <<"1", ",", "x">>

CommandLines ==
    [mode         : {"run"},
     coveragePath : {<<>>, <<CliPath>>},
     weights      : {<<>>, <<LinesOnlyText>>, <<BadWeightsText>>},
     minLines     : {<<>>, <<<<"0">>>>, <<<<"-", "1">>>>},
     json         : BOOLEAN,
     top          : {<<>>, <<<<"1">>>>, <<<<"0">>>>}]
    \cup
    [mode         : {"init-config", "check-config"},
     coveragePath : {<<>>},
     weights      : {<<>>},
     minLines     : {<<>>},
     json         : {FALSE},
     top          : {<<>>}]

\* what a settings file sets for a key
SettingsValue(key) ==
    CASE key = "coveragePath" -> <<SettingsPath>>
      [] key = "weights"      -> <<SettingsWeightsText>>
      [] key = "minLines"     -> <<0>>
      [] key = "json"         -> <<TRUE>>
      [] key = "top"          -> <<2>>

SettingsWith(keys) == [k \in ConfigKeys |-> IF k \in keys THEN SettingsValue(k) ELSE <<>>]

\* no settings file, or one that sets no key, one key, or every key
SettingsFiles ==
    {<<>>} \cup { <<SettingsWith(keys)>> : keys \in {{}, ConfigKeys} \cup {{k} : k \in ConfigKeys} }

ReportBlock(i, style) == [path |-> FilePath(i), style |-> style, form |-> "closed"]

\* an empty file, a file without a record, a file with two records
ReportTexts ==
    { <<>>,
      Report(<<>>, "header"),
      Report(<<ReportBlock(1, "half"), ReportBlock(2, "halfbig")>>, "bare") }

ReportPaths ==
    {Resolve(Cwd, CliPath), SettingsPath, Candidates[1], Candidates[4]}

Disks ==
    [exists     : {{}, ReportPaths, {Candidates[4]}, {Resolve(Cwd, CliPath), SettingsPath}},
     settings   : SettingsFiles,
     unreadable : {{}, ReportPaths},
     report     : ReportTexts]

\* main has not merged anything yet
NoRun ==
    [merged |-> <<>>, explicitPath |-> FALSE, resolvedPath |-> <<>>,
     options |-> <<>>, lcovContent |-> <<>>]

InitCli ==
    /\ argv \in CommandLines
    /\ disk \in Disks
    /\ config = NoRun
    /\ exit = <<>>
    /\ pc = "main"
    /\ searched = <<>>
    /\ discovered = <<>>
    /\ content = <<>>
    /\ lines = <<>>
    /\ idx = 0
    /\ current = <<>>
    /\ files = <<>>
    /\ blocks = <<>>
    /\ runs = <<>>
    /\ scored = <<>>
    /\ uri = <<>>
    /\ parsed = <<>>
    /\ CacheIdle

\* main(), up to its call of runAnalysis
Main ==
    /\ pc = "main"
    /\ LET cliArgs        == programOpts(argv)
           fileConfig     == readConfigFile(disk)
           minLinesNum    == IF Truthy(cliArgs.minLines) THEN <<parseInt(cliArgs.minLines[1])>> ELSE <<>>
           topNum         == IF Truthy(cliArgs.top) THEN <<parseInt(cliArgs.top[1])>> ELSE <<>>
           badMinLines    == minLinesNum # <<>> /\ (minLinesNum[1].nan \/ minLinesNum[1].v < 0)
           badTop         == topNum # <<>> /\ (topNum[1].nan \/ topNum[1].v <= 0)
           parsedMinLines == IF minLinesNum # <<>> THEN <<minLinesNum[1].v>> ELSE <<>>
           parsedTop      == IF topNum # <<>> THEN <<topNum[1].v>> ELSE <<>>
       IN  IF argv.mode # "run"
           THEN /\ exit' = Exit(0, "")
                /\ pc' = "exited"
                /\ UNCHANGED config
           ELSE IF badMinLines
           THEN /\ exit' = Exit(1, "Error: --min-lines must be a non-negative number")
                /\ pc' = "exited"
                /\ UNCHANGED config
           ELSE IF badTop
           THEN /\ exit' = Exit(1, "Error: --top must be a positive number")
                /\ pc' = "exited"
                /\ UNCHANGED config
           ELSE /\ config' = [config EXCEPT
                                !.merged = <<Merge(argv, fileConfig, parsedMinLines, parsedTop)>>,
                                !.explicitPath = (argv.coveragePath # <<>>
                                                  \/ fileConfig.coveragePath # <<>>)]
                /\ pc' = "runAnalysis"
                /\ UNCHANGED exit
    /\ UNCHANGED <<content, lines, idx, current, files, blocks, runs>>
    /\ UNCHANGED <<cacheVars, scored, argv, disk, searched, discovered, uriVars>>

\* runAnalysis: the coverage file, given or discovered
ResolvePath ==
    /\ pc = "runAnalysis"
    /\ IF config.explicitPath /\ config.merged[1].coveragePath # <<>>
       THEN LET resolvedPath == resolveCoveragePath(config.merged[1].coveragePath[1])
            IN  /\ UNCHANGED <<searched, discovered>>
                /\ IF ~existsSync(resolvedPath, disk)
                   THEN /\ exit' = Exit(1, "Error: Could not find coverage file at path")
                        /\ pc' = "exited"
                        /\ UNCHANGED config
                   ELSE /\ config' = [config EXCEPT !.resolvedPath = <<resolvedPath>>]
                        /\ pc' = "options"
                        /\ UNCHANGED exit
       ELSE LET r == discoverCoverageFile(disk)
            IN  /\ discovered' = <<r>>
                /\ searched' = IF r.null THEN Candidates ELSE r.searched
                /\ IF r.null
                   THEN /\ exit' = Exit(1, "Error: Could not find coverage file")
                        /\ pc' = "exited"
                        /\ UNCHANGED config
                   ELSE /\ config' = [config EXCEPT !.resolvedPath = <<r.found>>]
                        /\ pc' = "options"
                        /\ UNCHANGED exit
    /\ UNCHANGED <<content, lines, idx, current, files, blocks, runs>>
    /\ UNCHANGED <<cacheVars, scored, argv, disk, uriVars>>

\* runAnalysis: parseWeights and the AnalyzerOptions
ParseOptions ==
    /\ pc = "options"
    /\ LET m == config.merged[1]
           w == parseWeights(IF Truthy(m.weights) THEN m.weights[1] ELSE DEFAULTS.weights[1])
       IN  IF ~w.ok
           THEN /\ exit' = Exit(1, "Error: Weights must be three comma-separated numbers")
                /\ pc' = "exited"
                /\ UNCHANGED config
           ELSE /\ config' = [config EXCEPT !.options =
                                 <<[coveragePath |-> config.resolvedPath[1],
                                    weights  |-> w.weights,
                                    minLines |-> IF m.minLines # <<>> THEN m.minLines[1]
                                                 ELSE DEFAULTS.minLines[1],
                                    json     |-> IF m.json # <<>> THEN m.json[1]
                                                 ELSE DEFAULTS.json[1],
                                    top      |-> m.top]>>]
                /\ pc' = "read"
                /\ UNCHANGED exit
    /\ UNCHANGED <<content, lines, idx, current, files, blocks, runs>>
    /\ UNCHANGED <<cacheVars, scored, argv, disk, searched, discovered, uriVars>>

\* runAnalysis: readFileSync(resolvedPath, 'utf-8')
ReadReport ==
    /\ pc = "read"
    /\ IF config.resolvedPath[1] \in disk.unreadable
       THEN /\ exit' = Exit(1, "Error: Could not read path")
            /\ pc' = "exited"
            /\ UNCHANGED <<config, content>>
       ELSE /\ content' = disk.report
            /\ config' = [config EXCEPT !.lcovContent = <<disk.report>>]
            /\ pc' = "parse"
            /\ UNCHANGED exit
    /\ UNCHANGED <<lines, idx, current, files, blocks, runs>>
    /\ UNCHANGED <<cacheVars, scored, argv, disk, searched, discovered, uriVars>>

\* runAnalysis: const files = parseLcov(lcovContent) and the test for no record
ParseFiles ==
    /\ pc = "parse"
    /\ files' = parseLcov(content)
    /\ exit' = ExitAtZeroRecords(Len(files'))
    /\ pc' = IF exit' # <<>> THEN "exited" ELSE "analyze"
    /\ UNCHANGED <<content, lines, idx, current, blocks, runs>>
    /\ UNCHANGED <<cacheVars, scored, argv, disk, config, searched, discovered, uriVars>>

\* runAnalysis: analyzeCoverage, the output, and the end of the process
AnalyzeAndPrint ==
    /\ pc = "analyze"
    /\ LET o == config.options[1]
       IN  runs' = <<Run(o.weights, o.minLines, o.top)>>
    /\ exit' = Exit(0, "")
    /\ pc' = "exited"
    /\ UNCHANGED <<content, lines, idx, current, files, blocks>>
    /\ UNCHANGED <<cacheVars, scored, argv, disk, config, searched, discovered, uriVars>>

NextCli == Main \/ ResolvePath \/ ParseOptions \/ ReadReport \/ ParseFiles \/ AnalyzeAndPrint

SpecCli == InitCli /\ [][NextCli]_vars

----------------------------------------------------------------------------
(* Claims about the command line                                           *)

\* the value of a setting by precedence: command line, settings file, default
ByPrecedence(cli, key) ==
    IF cli # <<>> THEN cli
    ELSE IF readConfigFile(disk)[key] # <<>> THEN readConfigFile(disk)[key]
    ELSE DEFAULTS[key]

\* C15: for weights, minLines, json, top and coveragePath the value used for
\* the analysis is the command-line value when the user gave one, otherwise
\* the settings-file value when the file sets it, otherwise the built-in
\* default (for coveragePath: the discovered location); the file's value is
\* never overridden by a default.
C15_Precedence ==
    (pc \in {"read", "parse", "analyze", "exited"} /\ config.options # <<>>) =>
        LET o == config.options[1]
        IN  /\ o.weights = parseWeights(ByPrecedence(argv.weights, "weights")[1]).weights
            /\ o.minLines = ByPrecedence(IF argv.minLines # <<>>
                                         THEN <<parseInt(argv.minLines[1]).v>> ELSE <<>>,
                                         "minLines")[1]
            /\ o.json = ByPrecedence(IF argv.json THEN <<TRUE>> ELSE <<>>, "json")[1]
            /\ o.top = ByPrecedence(IF argv.top # <<>>
                                    THEN <<parseInt(argv.top[1]).v>> ELSE <<>>, "top")
            /\ (argv.coveragePath # <<>> \/ readConfigFile(disk).coveragePath # <<>>) =>
                  o.coveragePath =
                      resolveCoveragePath(ByPrecedence(argv.coveragePath, "coveragePath")[1])

\* C16: when the report was read and parseLcov found no record in it, the
\* process reports the problem and ends with a non-zero exit status.
C16_NoRecordsIsAnError ==
    (pc = "exited" /\ config.lcovContent # <<>>
        /\ parseLcov(config.lcovContent[1]) = <<>>) =>
            /\ exit[1].code # 0
            /\ exit[1].stderr # ""

----------------------------------------------------------------------------
(* Resource URIs, src/mcp/types.ts: the builders and parseUri, on          *)
(* sequences of characters.  A call that throws yields [ok |-> FALSE].     *)

SCHEME == <<"b", "r", "e", "n", "n", "p", "u", "n", "k", "t">>

SchemePrefix == SCHEME \o <<":", "/", "/">>

CoverageType == <<"c", "o", "v", "e", "r", "a", "g", "e">>

FileType == <<"f", "i", "l", "e">>

PrioritiesType == <<"p", "r", "i", "o", "r", "i", "t", "i", "e", "s">>

ConfigType == <<"c", "o", "n", "f", "i", "g">>

QuickWinsType == <<"q", "u", "i", "c", "k", "-", "w", "i", "n", "s">>

ProjectKey == <<"p", "r", "o", "j", "e", "c", "t">>

TopKey == <<"t", "o", "p">>

MinLinesKey == <<"m", "i", "n", "L", "i", "n", "e", "s">>

MaxLinesKey == <<"m", "a", "x", "L", "i", "n", "e", "s">>

\* the characters, other than letters and digits, that encodeURIComponent
\* leaves as they are
UriUnreserved == {"-", "_", ".", "!", "~", "*", "'", "(", ")"}

\* the characters, other than letters and digits, that URLSearchParams leaves
\* as they are
FormUnreserved == {"*", "-", ".", "_"}

Letters == {"a", "b", "c", "e", "f", "g", "i", "j", "k", "l", "m", "n", "o", "p",
            "q", "r", "s", "t", "u", "v", "w", "x", "B", "D", "F", "L", "R", "U"}

\* the two hexadecimal digits of the (ASCII) characters that get escaped
PercentCode ==
    [c \in {" ", "\"", "%", "&", "+", "/", "=", "?", "R", "U"} |->
        CASE c = " "  -> <<"2", "0">>
          [] c = "\"" -> <<"2", "2">>
          [] c = "%"  -> <<"2", "5">>
          [] c = "&"  -> <<"2", "6">>
          [] c = "+"  -> <<"2", "B">>
          [] c = "/"  -> <<"2", "F">>
          [] c = "="  -> <<"3", "D">>
          [] c = "?"  -> <<"3", "F">>
          [] c = "R"  -> <<"5", "2">>
          [] c = "U"  -> <<"5", "5">>]

HexDigits == Digits \o <<"A", "B", "C", "D", "E", "F", "a", "b", "c", "d", "e", "f">>

IsHex(c) == \E i \in 1..Len(HexDigits) : HexDigits[i] = c

RECURSIVE Flatten(_)
Flatten(ss) == IF ss = <<>> THEN <<>> ELSE Head(ss) \o Flatten(Tail(ss))

\* encodeURIComponent(s)
encodeURIComponent(s) ==
    Flatten([i \in 1..Len(s) |->
                IF s[i] \in Letters \/ IsDigit(s[i]) \/ s[i] \in UriUnreserved
                THEN <<s[i]>> ELSE <<"%">> \o PercentCode[s[i]]])

\* the serialisation URLSearchParams.toString() gives a key or a value: a
\* space becomes +
FormEncode(s) ==
    Flatten([i \in 1..Len(s) |->
                IF s[i] \in Letters \/ IsDigit(s[i]) \/ s[i] \in FormUnreserved
                THEN <<s[i]>>
                ELSE IF s[i] = " " THEN <<"+">>
                ELSE <<"%">> \o PercentCode[s[i]]])

\* s.replace(/%2F/g, '/')
RECURSIVE UnescapeSlashes(_)
UnescapeSlashes(s) ==
    IF s = <<>> THEN <<>>
    ELSE IF Len(s) >= 3 /\ SubSeq(s, 1, 3) = <<"%", "2", "F">>
    THEN <<"/">> \o UnescapeSlashes(SubSeq(s, 4, Len(s)))
    ELSE <<Head(s)>> \o UnescapeSlashes(Tail(s))

\* the character of an escape %XY; "other" for a character outside the model
Unescaped(x, y) ==
    IF \E c \in DOMAIN PercentCode : PercentCode[c] = <<x, y>>
    THEN CHOOSE c \in DOMAIN PercentCode : PercentCode[c] = <<x, y>>
    ELSE "other"

\* decodeURIComponent(s): every % must start an escape of two hexadecimal
\* digits, else it throws URIError
RECURSIVE decodeURIComponent(_)
decodeURIComponent(s) ==
    IF s = <<>> THEN [ok |-> TRUE, s |-> <<>>]
    ELSE IF Head(s) # "%"
    THEN LET r == decodeURIComponent(Tail(s))
         IN  [ok |-> r.ok, s |-> <<Head(s)>> \o r.s]
    ELSE IF Len(s) >= 3 /\ IsHex(s[2]) /\ IsHex(s[3])
    THEN LET r == decodeURIComponent(SubSeq(s, 4, Len(s)))
         IN  [ok |-> r.ok, s |-> <<Unescaped(s[2], s[3])>> \o r.s]
    ELSE [ok |-> FALSE, s |-> <<>>]

\* ss.join('/')
RECURSIVE JoinSlash(_)
JoinSlash(ss) ==
    IF ss = <<>> THEN <<>>
    ELSE IF Len(ss) = 1 THEN Head(ss)
    ELSE Head(ss) \o <<"/">> \o JoinSlash(Tail(ss))

\* params.toString() of a URLSearchParams holding the pairs kvs
RECURSIVE FormSerialize(_)
FormSerialize(kvs) ==
    IF kvs = <<>> THEN <<>>
    ELSE FormEncode(Head(kvs)[1]) \o <<"=">> \o FormEncode(Head(kvs)[2])
         \o (IF Len(kvs) > 1 THEN <<"&">> ELSE <<>>) \o FormSerialize(Tail(kvs))

\* an optional number that is there and not 0
TruthyNumber(opt) == opt # <<>> /\ opt[1] # 0

buildCoverageUri(projectPath) ==
    SchemePrefix \o CoverageType \o <<"/">>
        \o UnescapeSlashes(encodeURIComponent(projectPath))

buildFileUri(projectPath, filePath) ==
    SchemePrefix \o FileType \o <<"/">> \o encodeURIComponent(projectPath)
        \o <<"/">> \o UnescapeSlashes(encodeURIComponent(filePath))

buildPrioritiesUri(projectPath, top, minLines) ==
    SchemePrefix \o PrioritiesType \o <<"?">>
        \o FormSerialize(<< <<ProjectKey, projectPath>> >>
                         \o (IF TruthyNumber(top) THEN << <<TopKey, ToDecimal(top[1])>> >> ELSE <<>>)
                         \o (IF TruthyNumber(minLines)
                             THEN << <<MinLinesKey, ToDecimal(minLines[1])>> >> ELSE <<>>))

buildConfigUri(projectPath) ==
    SchemePrefix \o ConfigType \o <<"/">>
        \o UnescapeSlashes(encodeURIComponent(projectPath))

buildQuickWinsUri(projectPath, maxLines) ==
    SchemePrefix \o QuickWinsType \o <<"?">>
        \o FormSerialize(<< <<ProjectKey, projectPath>> >>
                         \o (IF TruthyNumber(maxLines)
                             THEN << <<MaxLinesKey, ToDecimal(maxLines[1])>> >> ELSE <<>>))

\* a call that threw
Thrown == [ok |-> FALSE]

\* parseQueryParams(queryPart), queryPart <<>> when undefined: the pairs in
\* order, a later pair of the same key overriding an earlier one on lookup
parseQueryParams(queryPart) ==
    IF queryPart = <<>> \/ queryPart[1] = <<>> THEN [ok |-> TRUE, params |-> <<>>]
    ELSE LET pairs == SplitOn(queryPart[1], "&")
             kv(i) == SplitOn(pairs[i], "=")
             kept  == SelectSeq([i \in 1..Len(pairs) |-> kv(i)],
                                LAMBDA q : q[1] # <<>> /\ Len(q) >= 2)
             dec   == [i \in 1..Len(kept) |->
                          <<decodeURIComponent(kept[i][1]), decodeURIComponent(kept[i][2])>>]
         IN  IF \E i \in 1..Len(dec) : ~dec[i][1].ok \/ ~dec[i][2].ok
             THEN [ok |-> FALSE, params |-> <<>>]
             ELSE [ok |-> TRUE, params |-> [i \in 1..Len(dec) |-> <<dec[i][1].s, dec[i][2].s>>]]

\* params[key]: <<>> when undefined
Param(params, key) ==
    LET at == {i \in 1..Len(params) : params[i][1] = key}
    IN  IF at = {} THEN <<>>
        ELSE <<params[CHOOSE i \in at : \A j \in at : j <= i][2]>>

ParsedUri(type, projectPath, filePath, params) ==
    [ok |-> TRUE, resourceType |-> type, projectPath |-> projectPath,
     filePath |-> filePath, params |-> params]

\* parseCoverageUri and parseConfigUri: the same code but for the type
parsePathUri(type, segments, params) ==
    LET pathSegments == Tail(segments)
        projectPath  == IF pathSegments = <<>> THEN <<>>
                        ELSE IF pathSegments[1] = <<>>
                        THEN <<"/">> \o JoinSlash(Tail(pathSegments))
                        ELSE JoinSlash(pathSegments)
        decoded      == decodeURIComponent(projectPath)
    IN  IF pathSegments = <<>> \/ projectPath = <<>> \/ projectPath = <<"/">> THEN Thrown
        ELSE IF ~decoded.ok THEN Thrown
        ELSE ParsedUri(type, decoded.s, <<>>, params)

parseCoverageUri(segments, params) == parsePathUri(CoverageType, segments, params)

parseConfigUri(segments, params) == parsePathUri(ConfigType, segments, params)

\* parseFileUri: the project segment is decoded twice, the file path once
parseFileUri(segments, params) ==
    IF Len(segments) < 3 THEN Thrown
    ELSE LET once     == decodeURIComponent(segments[2])
             twice    == IF once.ok THEN decodeURIComponent(once.s) ELSE once
             filePath == decodeURIComponent(JoinSlash(SubSeq(segments, 3, Len(segments))))
         IN  IF ~once.ok \/ ~twice.ok \/ ~filePath.ok THEN Thrown
             ELSE ParsedUri(FileType, twice.s, <<filePath.s>>, params)

\* parsePrioritiesUri and parseQuickWinsUri: the same code but for the type
parseQueryUri(type, params) ==
    LET projectPath == Param(params, ProjectKey)
    IN  IF projectPath = <<>> \/ projectPath[1] = <<>> THEN Thrown
        ELSE ParsedUri(type, projectPath[1], <<>>, params)

parsePrioritiesUri(params) == parseQueryUri(PrioritiesType, params)

parseQuickWinsUri(params) == parseQueryUri(QuickWinsType, params)

parseUri(u) ==
    IF ~StartsWith(u, SchemePrefix) THEN Thrown
    ELSE LET withoutScheme == SliceFrom(u, Len(SchemePrefix))
             parts         == SplitOn(withoutScheme, "?")
             pathPart      == parts[1]
             queryPart     == IF Len(parts) >= 2 THEN <<parts[2]>> ELSE <<>>
             segments      == SplitOn(pathPart, "/")
             resourceType  == segments[1]
             q             == parseQueryParams(queryPart)
         IN  IF resourceType = <<>> THEN Thrown
             ELSE IF ~q.ok THEN Thrown
             ELSE IF resourceType = CoverageType THEN parseCoverageUri(segments, q.params)
             ELSE IF resourceType = FileType THEN parseFileUri(segments, q.params)
             ELSE IF resourceType = PrioritiesType THEN parsePrioritiesUri(q.params)
             ELSE IF resourceType = ConfigType THEN parseConfigUri(segments, q.params)
             ELSE IF resourceType = QuickWinsType THEN parseQuickWinsUri(q.params)
             ELSE Thrown

----------------------------------------------------------------------------
(* A URI is built for a project path (and a file path) and parsed back     *)

\* longest project path, in characters
MaxPathLen == 3

\* longest file path, in characters
MaxFileLen == 2

PathChars == {"p", "/", " ", "%", "+", "?", "&", "2", "5"}

FileChars == {"f", "/", " ", "%"}

Strings(chars, n) == UNION { [1..k -> chars] : k \in 1..n }

OptionNumbers == {<<>>, <<0>>, <<5>>}

\* the call that built the URI: the builder and its arguments
Built(builder, projectPath, filePath, u) ==
    [builder |-> builder, projectPath |-> projectPath, filePath |-> filePath, uri |-> u]

InitUri ==
    /\ \E p \in Strings(PathChars, MaxPathLen) : content = p
    /\ uri = <<>>
    /\ parsed = <<>>
    /\ pc = "build"
    /\ lines = <<>>
    /\ idx = 0
    /\ current = <<>>
    /\ files = <<>>
    /\ blocks = <<>>
    /\ runs = <<>>
    /\ scored = <<>>
    /\ argv = <<>>
    /\ disk = <<>>
    /\ config = <<>>
    /\ exit = <<>>
    /\ searched = <<>>
    /\ discovered = <<>>
    /\ CacheIdle

BuildCoverage ==
    /\ pc = "build"
    /\ uri' = <<Built("coverage", content, <<>>, buildCoverageUri(content))>>
    /\ pc' = "built"
    /\ UNCHANGED <<content, lines, idx, current, files, blocks, runs>>
    /\ UNCHANGED <<cacheVars, scored, cliVars, parsed>>

BuildConfig ==
    /\ pc = "build"
    /\ uri' = <<Built("config", content, <<>>, buildConfigUri(content))>>
    /\ pc' = "built"
    /\ UNCHANGED <<content, lines, idx, current, files, blocks, runs>>
    /\ UNCHANGED <<cacheVars, scored, cliVars, parsed>>

BuildFile ==
    /\ pc = "build"
    /\ \E f \in Strings(FileChars, MaxFileLen) :
          uri' = <<Built("file", content, <<f>>, buildFileUri(content, f))>>
    /\ pc' = "built"
    /\ UNCHANGED <<content, lines, idx, current, files, blocks, runs>>
    /\ UNCHANGED <<cacheVars, scored, cliVars, parsed>>

BuildPriorities ==
    /\ pc = "build"
    /\ \E top, minLines \in OptionNumbers :
          uri' = <<Built("priorities", content, <<>>,
                         buildPrioritiesUri(content, top, minLines))>>
    /\ pc' = "built"
    /\ UNCHANGED <<content, lines, idx, current, files, blocks, runs>>
    /\ UNCHANGED <<cacheVars, scored, cliVars, parsed>>

BuildQuickWins ==
    /\ pc = "build"
    /\ \E maxLines \in OptionNumbers :
          uri' = <<Built("quick-wins", content, <<>>, buildQuickWinsUri(content, maxLines))>>
    /\ pc' = "built"
    /\ UNCHANGED <<content, lines, idx, current, files, blocks, runs>>
    /\ UNCHANGED <<cacheVars, scored, cliVars, parsed>>

\* parseUri(uri)
ParseBuilt ==
    /\ pc = "built"
    /\ parsed' = <<parseUri(uri[1].uri)>>
    /\ pc' = "parsed"
    /\ UNCHANGED <<content, lines, idx, current, files, blocks, runs>>
    /\ UNCHANGED <<cacheVars, scored, cliVars, uri>>

NextUri ==
    BuildCoverage \/ BuildConfig \/ BuildFile \/ BuildPriorities \/ BuildQuickWins
        \/ ParseBuilt

SpecUri == InitUri /\ [][NextUri]_vars

\* the resource type each builder writes
TypeOf(builder) ==
    CASE builder = "coverage"   -> CoverageType
      [] builder = "file"       -> FileType
      [] builder = "priorities" -> PrioritiesType
      [] builder = "config"     -> ConfigType
      [] builder = "quick-wins" -> QuickWinsType

\* C18: parsing the URI a builder produced for a non-empty project path p (and
\* a file path f) gives back projectPath = p, the builder's resource type and,
\* for a file URI, filePath = f, also for paths with spaces, %, +, ? or &.
C18_UriRoundTrip ==
    pc = "parsed" =>
        /\ parsed[1].ok
        /\ parsed[1].resourceType = TypeOf(uri[1].builder)
        /\ parsed[1].projectPath = uri[1].projectPath
        /\ uri[1].builder = "file" => parsed[1].filePath = uri[1].filePath

----------------------------------------------------------------------------
(* The same report parsed and scored twice with the same parameters: the   *)
(* second run either parses the text again or scores the list it was left  *)

\* an argument array that filter has shortened in place
ArgumentAfterFiltered(fs, w, minLines) == FilterMinLines(fs, minLines)

\* the array passed as files once analyzeCoverage has returned: reduce only
\* reads it, filter and map build new arrays, and sort orders the new array
ArgumentAfter(fs, w, minLines) == fs

\* one call analyzeCoverage(files, w, minLines, top): what it was passed, what
\* it returned, and the passed array afterwards
Call(w, minLines, top) ==
    [call |-> Run(w, minLines, top),
     passed |-> files,
     after |-> ArgumentAfter(files, w, minLines)]

\* analyzeCoverage(files, weights, minLines, top)
AnalyzeFirst ==
    /\ pc = "parsed"
    /\ \E w \in WeightsSet, m \in MinLinesSet, t \in TopSet :
          /\ runs' = <<Call(w, m, t)>>
          /\ files' = ArgumentAfter(files, w, m)
    /\ pc' = "analyzed"
    /\ UNCHANGED <<content, lines, idx, current, blocks>>
    /\ UNCHANGED others

\* parseLcov(lcovContent) on the same text, for the second run
ParseAgain ==
    /\ pc = "analyzed"
    /\ files' = parseLcov(content)
    /\ pc' = "reparsed"
    /\ UNCHANGED <<content, lines, idx, current, blocks, runs>>
    /\ UNCHANGED others

\* analyzeCoverage with the parameters of the first call, on the list parsed
\* again or on the list the first call was given
AnalyzeSame ==
    /\ pc \in {"analyzed", "reparsed"}
    /\ LET c == runs[1].call
       IN  /\ runs' = Append(runs, Call(c.weights, c.minLines, c.top))
           /\ files' = ArgumentAfter(files, c.weights, c.minLines)
    /\ pc' = "repeated"
    /\ UNCHANGED <<content, lines, idx, current, blocks>>
    /\ UNCHANGED others

NextRepeat == ParseReport \/ AnalyzeFirst \/ ParseAgain \/ AnalyzeSame

SpecRepeat == InitAnalyze /\ [][NextRepeat]_vars

----------------------------------------------------------------------------
(* Claims about records without a counter line and about repeated runs     *)

\* C19: a counter that has no line between a record's SF: line and its
\* end_of_record is 0 in the tally emitted for the record, whatever the
\* records before it, emitted or discarded, carried for that counter.
C19_AbsentIsZero ==
    pc = "parsed" =>
        \A j \in 1..Min(Len(files), Len(ClosedBlocks)) :
            \A k \in 1..6 :
                ~Written(ClosedBlocks[j], k) => files[j][Fields[k]] = Num(0)

\* a record with every counter above zero is emitted, then a record that
\* writes only two of its counters
C19_Witness ==
    /\ pc = "parsed"
    /\ Len(blocks) = 2
    /\ blocks[1].form = "closed"
    /\ blocks[1].style = "wide"
    /\ blocks[2].form = "sparse"
    /\ Len(files) = 2
    /\ files[1].functionsHit = Num(CounterValue("wide", 4))
    /\ files[2].functionsHit = Num(0)

----------------------------------------------------------------------------
(* Claims about the lines the parser ignores and about the stored path     *)

\* the trimmed line starts with one of the six counter markers
IsCounterLine(trimmed) == \E k \in 1..6 : StartsWith(trimmed, Markers[k])

\* C21: a line that is not an SF: line changes nothing unless a record is open
\* and the line is a counter line or end_of_record: with no record open a
\* counter line or an end_of_record leaves the open record (none) and the
\* emitted tallies as they are, and with a record open any other line leaves
\* the open record's fields and the emitted tallies as they are.
C21_OtherLinesChangeNothing ==
    [][ (pc = "loop" /\ idx' = idx + 1) =>
          LET trimmed == Trim(lines[idx + 1])
          IN  ( /\ ~StartsWith(trimmed, SF)
                /\ \/ current = <<>>
                   \/ ~IsCounterLine(trimmed) /\ trimmed # EndOfRecord )
              => (current' = current /\ files' = files) ]_vars

\* a counter line and an end_of_record were read before the first SF: line and
\* detail lines inside a record; the one record is emitted with its own
\* linesFound
C21_Witness ==
    /\ pc = "parsed"
    /\ Len(lines) > 3
    /\ lines[2] = LF \o <<"9">>
    /\ lines[3] = EndOfRecord
    /\ Len(blocks) = 1
    /\ blocks[1].form = "noisy"
    /\ blocks[1].style = "plain"
    /\ files = <<[NewTally(<<"a">>) EXCEPT !.linesHit = Num(1),
                    !.functionsFound = Num(2), !.functionsHit = Num(3),
                    !.branchesFound = Num(4), !.branchesHit = Num(5)]>>

\* C22 as stated: the path stored for an SF: line is the remainder of the
\* untrimmed line after the SF: prefix, white space at its start and at its
\* end included.
C22_PathUntrimmed ==
    (pc = "loop" /\ idx >= 1 /\ StartsWith(Trim(lines[idx]), SF)) =>
        /\ current # <<>>
        /\ current[1].file = SliceFrom(TrimStart(lines[idx]), 3)

\* C22, amended: the line is trimmed first and the path stored for an SF: line
\* is the remainder of the trimmed line after the SF: prefix: white space
\* between the prefix and the path is kept, white space at the end of the line
\* is not.
C22_PathOfTrimmedLine ==
    (pc = "loop" /\ idx >= 1 /\ StartsWith(Trim(lines[idx]), SF)) =>
        /\ current # <<>>
        /\ current[1].file = SliceFrom(Trim(lines[idx]), 3)
        /\ current[1].file = TrimEnd(SliceFrom(TrimStart(lines[idx]), 3))

\* an SF: line wrapped in white space was just read, after a record whose
\* path starts with white space was emitted with that white space
C22_Witness ==
    /\ pc = "loop"
    /\ idx >= 1
    /\ lines[idx] = Pad(SF \o <<"a">>)
    /\ current # <<>>
    /\ current[1].file = <<"a">>
    /\ Len(files) = 1
    /\ files[1].file = <<" ", "b">>

----------------------------------------------------------------------------
(* The ranking of the MCP tools, src/mcp/tools: getPriorities and the texts *)
(* it attaches to a file                                                   *)

\* a < n in JavaScript: false when a is NaN
JsBelow(a, n) == ~a.nan /\ a.v < n

\* found > 0 ? Math.round((hit / found) * 100) : 100
RoundedPct(found, hit) ==
    IF JsPositive(found)
    THEN (IF hit.nan THEN NaN ELSE Num(RoundDiv(100 * hit.v, found.v)))
    ELSE Num(100)

\* found > 0 ? (hit / found) * 100 : 100, compared with a whole limit
ExactPctBelow(found, hit, limit) ==
    JsPositive(found) /\ ~hit.nan /\ 100 * hit.v < limit * found.v

\* `${n}`: the text of a number inside a template literal
NumberText(a) ==
    IF a.nan THEN <<"NaN">>
    ELSE IF a.v < 0 THEN <<"-">> \o ToDecimal(-a.v)
    ELSE ToDecimal(a.v)

BranchText == "% branch coverage ("

FunctionText == "% function coverage ("

LineText == "% line coverage"

ModerateText == "Moderate coverage gaps across metrics."

\* issues.join('. ')
RECURSIVE JoinIssues(_)
JoinIssues(issues) ==
    IF issues = <<>> THEN <<>>
    ELSE IF Len(issues) = 1 THEN Head(issues)
    ELSE Head(issues) \o <<". ">> \o JoinIssues(Tail(issues))

\* generateReason(file): the text as a sequence of pieces, the digits of a
\* number one piece each.  The three percentages are rounded to whole numbers
\* before they are compared with 50, 70 and 60.
generateReason(f) ==
    LET lineCov   == RoundedPct(f.linesFound, f.linesHit)
        branchCov == RoundedPct(f.branchesFound, f.branchesHit)
        funcCov   == RoundedPct(f.functionsFound, f.functionsHit)
        issues ==
            (IF JsBelow(branchCov, 50)
             THEN << NumberText(branchCov) \o <<BranchText>>
                        \o NumberText(JsSub(f.branchesFound, f.branchesHit))
                        \o <<" untested branches)">> >>
             ELSE <<>>)
            \o
            (IF JsBelow(funcCov, 70)
             THEN << NumberText(funcCov) \o <<FunctionText>>
                        \o NumberText(JsSub(f.functionsFound, f.functionsHit))
                        \o <<" untested functions)">> >>
             ELSE <<>>)
            \o
            (IF JsBelow(lineCov, 60)
             THEN << NumberText(lineCov) \o <<LineText>> >>
             ELSE <<>>)
    IN  IF issues = <<>> THEN <<ModerateText>>
        ELSE JoinIssues(issues) \o <<".">>

\* generateSuggestedFocus(file): here the percentages are not rounded
generateSuggestedFocus(f) ==
    IF ExactPctBelow(f.branchesFound, f.branchesHit, 50)
    THEN "Focus on testing conditional logic, error handling paths, and edge cases."
    ELSE IF ExactPctBelow(f.functionsFound, f.functionsHit, 70)
    THEN "Focus on testing untested functions - some may be dead code or missing feature tests."
    ELSE "Improve general test coverage across the file."

\* a ranking entry scored on line coverage alone, whatever the weights
PriorityResultOfLines(f, w) ==
    LET analysis == analyzeFile(f, [branches |-> 0, functions |-> 0, lines |-> 10])
    IN  [file |-> f.file,
         priorityScore |-> analysis.priorityScore,
         coverage |-> [lines |-> analysis.lines.coverage,
                       functions |-> analysis.functions.coverage,
                       branches |-> analysis.branches.coverage],
         uncovered |-> [lines |-> JsSub(f.linesFound, f.linesHit),
                        branches |-> JsSub(f.branchesFound, f.branchesHit),
                        functions |-> JsSub(f.functionsFound, f.functionsHit)],
         reason |-> generateReason(f),
         suggestedFocus |-> generateSuggestedFocus(f)]

\* the callback of .map in getPriorities
PriorityResult(f, w) ==
    LET analysis == analyzeFile(f, w)
    IN  [file |-> f.file,
         priorityScore |-> analysis.priorityScore,
         coverage |-> [lines |-> analysis.lines.coverage,
                       functions |-> analysis.functions.coverage,
                       branches |-> analysis.branches.coverage],
         uncovered |-> [lines |-> JsSub(f.linesFound, f.linesHit),
                        branches |-> JsSub(f.branchesFound, f.branchesHit),
                        functions |-> JsSub(f.functionsFound, f.functionsHit)],
         reason |-> generateReason(f),
         suggestedFocus |-> generateSuggestedFocus(f)]

\* getPriorities(files, top, minLines, weights)
getPriorities(fs, top, minLines, w) ==
    LET kept == FilterMinLines(fs, minLines)
    IN  Slice0(SortByScore([i \in 1..Len(kept) |-> PriorityResult(kept[i], w)]), top)

----------------------------------------------------------------------------
(* The two rankings run on the same tallies                                *)

MaxRanked == 7

\* the counter texts of the records ranked: a NaN score (an unreadable LH), all
\* three gaps one half, and three different gaps
RankProfiles ==
    { Profiles.nolh, Profiles.half, <<"4", "2", "2", "2", "2", "0">> }

\* the tally parseLcov emits for a record with the given counter texts
TallyOf(texts, path) ==
    [file |-> path,
     linesFound     |-> parseInt(<<texts[1]>>),
     linesHit       |-> parseInt(<<texts[2]>>),
     functionsFound |-> parseInt(<<texts[3]>>),
     functionsHit   |-> parseInt(<<texts[4]>>),
     branchesFound  |-> parseInt(<<texts[5]>>),
     branchesHit    |-> parseInt(<<texts[6]>>)]

RankMinLines == {0, 3}

RankTops == {1, 5}

InitRank ==
    /\ \E n \in 0..MaxRanked : \E st \in [1..n -> RankProfiles] :
          files = [i \in 1..n |-> TallyOf(st[i], FilePath(i))]
    /\ content = <<>>
    /\ lines = <<>>
    /\ idx = 0
    /\ current = <<>>
    /\ blocks = <<>>
    /\ pc = "parsed"
    /\ runs = <<>>
    /\ OthersIdle

\* getPriorities(files, top, minLines, weights), as the get_priorities handler
\* calls it
Rank ==
    /\ pc = "parsed"
    /\ \E w \in WeightsSet, m \in RankMinLines, t \in RankTops :
          scored' = <<[weights |-> w, minLines |-> m, top |-> t,
                       priorities |-> getPriorities(files, t, m, w)]>>
    /\ pc' = "ranked"
    /\ UNCHANGED <<content, lines, idx, current, files, blocks, runs>>
    /\ UNCHANGED <<cacheVars, argv, disk, config, exit, searched, discovered, uri, parsed>>

\* analyzeCoverage(files, weights, minLines, top) on the same arguments
AnalyzeRanked ==
    /\ pc = "ranked"
    /\ runs' = <<Run(scored[1].weights, scored[1].minLines, <<scored[1].top>>)>>
    /\ pc' = "analyzed"
    /\ UNCHANGED <<content, lines, idx, current, files, blocks>>
    /\ UNCHANGED others

NextRank == Rank \/ AnalyzeRanked

SpecRank == InitRank /\ [][NextRank]_vars

\* what the two rankings have in common: the file and its score
FileAndScore(as) ==
    [i \in 1..Len(as) |-> [file |-> as[i].file, priorityScore |-> as[i].priorityScore]]

\* C27: for a positive integer top, getPriorities returns the same files in
\* the same order with the same priorityScore as
\* analyzeCoverage(files, weights, minLines, top).files.
C27_SameRanking ==
    pc = "analyzed" =>
        FileAndScore(scored[1].priorities) = FileAndScore(runs[1].result.files)

\* seven tallies, some with a NaN score and some tied, ranked both ways with a
\* top of 5 that cuts the list
C27_Witness ==
    /\ pc = "analyzed"
    /\ Len(files) = 7
    /\ scored[1].top = 5
    /\ scored[1].minLines = 0
    /\ Len(scored[1].priorities) = 5
    /\ Len(runs[1].analyzed) = 7
    /\ \E i \in 1..5 : scored[1].priorities[i].priorityScore.nan
    /\ \E i \in 1..4 :
          /\ ~scored[1].priorities[i].priorityScore.nan
          /\ scored[1].priorities[i].priorityScore =
                scored[1].priorities[i + 1].priorityScore

\* i comes before j in the sorted list as
Before(as, i, j) ==
    \E p, q \in 1..Len(as) : p < q /\ as[p].file = FilePath(i) /\ as[q].file = FilePath(j)

\* C28: files with equal priorityScore keep, in the list analyzeCoverage
\* sorts, the relative order they had in the input list.
C28_StableSort ==
    pc = "analyzed" =>
        \A i, j \in 1..Len(files) :
            LET a == analyzeFile(files[i], runs[1].weights)
                b == analyzeFile(files[j], runs[1].weights)
            IN  (i < j /\ JsEq(a.priorityScore, b.priorityScore))
                    => ~Before(runs[1].analyzed, j, i)

----------------------------------------------------------------------------
(* generateReason on one tally                                             *)

MaxReasonCount == 101

\* found and hit of the two other categories: nothing instrumented, nothing
\* hit, all hit, an unreadable hit count
FewPairs == { <<Num(0), Num(0)>>, <<Num(1), Num(0)>>, <<Num(1), Num(1)>>, <<Num(2), NaN>> }

ReasonTally(l, fn, br) ==
    [file |-> FilePath(1),
     linesFound |-> l[1], linesHit |-> l[2],
     functionsFound |-> fn[1], functionsHit |-> fn[2],
     branchesFound |-> br[1], branchesHit |-> br[2]]

\* one category is varied over every found up to MaxReasonCount and every hit
\* up to found, the other two over the few pairs
InitReason ==
    /\ \E found \in 0..MaxReasonCount : \E hit \in 0..found :
       \E p \in FewPairs, q \in FewPairs :
          LET v == <<Num(found), Num(hit)>>
          IN  \/ files = <<ReasonTally(v, p, q)>>
              \/ files = <<ReasonTally(p, v, q)>>
              \/ files = <<ReasonTally(p, q, v)>>
    /\ content = <<>>
    /\ lines = <<>>
    /\ idx = 0
    /\ current = <<>>
    /\ blocks = <<>>
    /\ pc = "parsed"
    /\ runs = <<>>
    /\ OthersIdle

\* reason: generateReason(f) and suggestedFocus: generateSuggestedFocus(f)
Explain ==
    /\ pc = "parsed"
    /\ scored' = <<[reason |-> generateReason(files[1]),
                    suggestedFocus |-> generateSuggestedFocus(files[1])]>>
    /\ pc' = "explained"
    /\ UNCHANGED <<content, lines, idx, current, files, blocks, runs>>
    /\ UNCHANGED <<cacheVars, argv, disk, config, exit, searched, discovered, uri, parsed>>

NextReason == Explain

SpecReason == InitReason /\ [][NextReason]_vars

\* the reason has the piece text
Mentions(reason, text) == \E i \in 1..Len(reason) : reason[i] = text

\* C26: the reason mentions branch coverage exactly when branchesHit /
\* branchesFound * 100 is below 50, function coverage exactly when it is below
\* 70 and line coverage exactly when it is below 60, each whatever the other
\* two are, and it is the generic text exactly when none is below its limit.
C26_FlagsExactlyBelow ==
    pc = "explained" =>
        LET f == files[1]
            r == scored[1].reason
            b == ExactPctBelow(f.branchesFound, f.branchesHit, 50)
            g == ExactPctBelow(f.functionsFound, f.functionsHit, 70)
            l == ExactPctBelow(f.linesFound, f.linesHit, 60)
        IN  /\ Mentions(r, BranchText) <=> b
            /\ Mentions(r, FunctionText) <=> g
            /\ Mentions(r, LineText) <=> l
            /\ (r = <<ModerateText>>) <=> (~b /\ ~g /\ ~l)

----------------------------------------------------------------------------
(* The estimate_impact handler, src/mcp/tools/estimateImpact.ts            *)

\* s.endsWith(p)
EndsWith(s, p) == Len(s) >= Len(p) /\ SubSeq(s, Len(s) - Len(p) + 1, Len(s)) = p

\* the callback of allFiles.find
Matches(f, path) == f.file = path \/ EndsWith(f.file, path) \/ EndsWith(path, f.file)

\* allFiles.find(f => ...): the first match, or undefined (<<>>)
Find(allFiles, path) ==
    LET hits == {i \in 1..Len(allFiles) : Matches(allFiles[i], path)}
    IN  IF hits = {} THEN <<>>
        ELSE <<allFiles[CHOOSE i \in hits : \A j \in hits : i <= j]>>

\* args.files.map(path => allFiles.find(...)).filter(f => f !== undefined):
\* one element per requested path that matches, in the order requested
RECURSIVE TargetFiles(_, _)
TargetFiles(allFiles, paths) ==
    IF paths = <<>> THEN <<>>
    ELSE Find(allFiles, Head(paths)) \o TargetFiles(allFiles, Tail(paths))

\* targetFiles.reduce((sum, f) => sum + (f.xFound - f.xHit), 0)
RECURSIVE Additional(_, _, _)
Additional(targets, found, hit) ==
    IF targets = <<>> THEN Num(0)
    ELSE JsAdd(Additional(SubSeq(targets, 1, Len(targets) - 1), found, hit),
               JsSub(targets[Len(targets)][found], targets[Len(targets)][hit]))

\* Math.round(x * 10) / 10 of a percentage held in hundredths: in tenths
RoundToTenths(pct) == IF pct.nan THEN NaN ELSE Num(RoundDiv(pct.v, 10))

\* Math.round(newCoverage * 10) / 10, in tenths, where newCoverage is
\* found > 0 ? ((hit + additional) / found) * 100 : 100
EstimatedTenths(metric, additional) ==
    IF JsPositive(metric.found)
    THEN (IF metric.hit.nan \/ additional.nan THEN NaN
          ELSE Num(RoundDiv(1000 * (metric.hit.v + additional.v), metric.found.v)))
    ELSE Num(1000)

\* x.toFixed(1) of x = n / d (d > 0): rounded half away from zero, the sign
\* kept even when the digits are 0.0
FixedOne(n, d) ==
    LET m == RoundDiv(10 * (IF n < 0 THEN -n ELSE n), d)
    IN  (IF n < 0 THEN <<"-">> ELSE <<>>)
            \o ToDecimal(m \div 10) \o <<".">> \o ToDecimal(m % 10)

\* `+${(newCoverage - overall.x.coverage).toFixed(1)}%`
ImprovementText(metric, additional) ==
    IF metric.found.nan \/ metric.hit.nan \/ additional.nan \/ metric.coverage.nan
    THEN <<"+", "NaN", "%">>
    ELSE IF metric.found.v > 0
    THEN <<"+">> \o FixedOne(10000 * (metric.hit.v + additional.v)
                                 - metric.coverage.v * metric.found.v,
                             100 * metric.found.v) \o <<"%">>
    ELSE <<"+">> \o FixedOne(10000 - metric.coverage.v, 100) \o <<"%">>

\* the handler, from the tallies loadCoverage returned and args.files
estimateImpact(allFiles, paths) ==
    LET overall == calculateOverallCoverage(allFiles)
        targets == TargetFiles(allFiles, paths)
        addL == Additional(targets, "linesFound", "linesHit")
        addF == Additional(targets, "functionsFound", "functionsHit")
        addB == Additional(targets, "branchesFound", "branchesHit")
    IN  IF targets = <<>>
        THEN [error |-> "None of the specified files found in coverage data",
              requestedFiles |-> paths]
        ELSE [filesAnalyzed |-> [i \in 1..Len(targets) |-> targets[i].file],
              currentCoverage |->
                  [lines |-> RoundToTenths(overall.lines.coverage),
                   functions |-> RoundToTenths(overall.functions.coverage),
                   branches |-> RoundToTenths(overall.branches.coverage)],
              estimatedCoverage |->
                  [lines |-> EstimatedTenths(overall.lines, addL),
                   functions |-> EstimatedTenths(overall.functions, addF),
                   branches |-> EstimatedTenths(overall.branches, addB)],
              improvement |->
                  [lines |-> ImprovementText(overall.lines, addL),
                   functions |-> ImprovementText(overall.functions, addF),
                   branches |-> ImprovementText(overall.branches, addB)],
              additionalCoverage |->
                  [lines |-> addL, functions |-> addF, branches |-> addB]]

MaxImpactFiles == 2

MaxRequested == 2

\* counter texts with hit <= found in each category: four of nine lines
\* covered, fully covered, and half covered with no function instrumented
ImpactProfiles ==
    { <<"9", "4", "2", "1", "2", "0">>,
      <<"2", "2", "1", "1", "1", "1">>,
      <<"2", "1", "0", "0", "1", "0">> }

\* the path of the i-th file of the coverage data
ImpactPath(i) == <<"s", "/", <<"a", "b", "c">>[i]>>

\* spellings of requested paths: the path itself, its last part, the path
\* under a longer root, a path that is in no record, and the empty text
Spellings ==
    UNION { { ImpactPath(i), SliceFrom(ImpactPath(i), 2), <<"r", "/">> \o ImpactPath(i) } :
               i \in 1..MaxImpactFiles }
        \cup { <<"z">>, <<>> }

InitImpact ==
    /\ \E n \in 1..MaxImpactFiles : \E st \in [1..n -> ImpactProfiles] :
          files = [i \in 1..n |-> TallyOf(st[i], ImpactPath(i))]
    /\ \E n \in 0..MaxRequested : argv \in [1..n -> Spellings]
    /\ content = <<>>
    /\ lines = <<>>
    /\ idx = 0
    /\ current = <<>>
    /\ blocks = <<>>
    /\ pc = "parsed"
    /\ runs = <<>>
    /\ scored = <<>>
    /\ disk = <<>>
    /\ config = <<>>
    /\ exit = <<>>
    /\ searched = <<>>
    /\ discovered = <<>>
    /\ uri = <<>>
    /\ parsed = <<>>
    /\ CacheIdle

\* the handler on args.files = argv
Estimate ==
    /\ pc = "parsed"
    /\ scored' = <<estimateImpact(files, argv)>>
    /\ pc' = "estimated"
    /\ UNCHANGED <<content, lines, idx, current, files, blocks, runs>>
    /\ UNCHANGED <<cacheVars, argv, disk, config, exit, searched, discovered, uri, parsed>>

NextImpact == Estimate

SpecImpact == InitImpact /\ [][NextImpact]_vars

ImpactCategories == {"lines", "functions", "branches"}

\* C29: with hit <= found in every category of every tally, the estimated
\* coverage the handler returns is, in each category, at least the current
\* coverage it returns and at most 100, whatever the requested paths, repeated
\* paths and two spellings of one file included.
C29_EstimateWithinRange ==
    (pc = "estimated" /\ "estimatedCoverage" \in DOMAIN scored[1]) =>
        \A c \in ImpactCategories :
            /\ scored[1].estimatedCoverage[c].v >= scored[1].currentCoverage[c].v
            /\ scored[1].estimatedCoverage[c].v <= 1000

----------------------------------------------------------------------------
(* The loaders of the MCP server and their two caches, src/mcp/tools/      *)
(* shared.ts.  A Map is the sequence of its entries in insertion order.    *)

\* const MAX_CACHE_SIZE = 50
MAX_CACHE_SIZE == 50

\* cache.get(key): <<>> for undefined
MapGet(cache, key) ==
    LET at == {i \in 1..Len(cache) : cache[i].key = key}
    IN  IF at = {} THEN <<>> ELSE <<cache[CHOOSE i \in at : TRUE].value>>

\* cache.delete(key)
MapDelete(cache, key) == SelectSeq(cache, LAMBDA e : e.key # key)

\* cache.set(key, value): a key the Map has keeps its place
MapSet(cache, key, value) ==
    IF \E i \in 1..Len(cache) : cache[i].key = key
    THEN [i \in 1..Len(cache) |->
             IF cache[i].key = key THEN [key |-> key, value |-> value] ELSE cache[i]]
    ELSE Append(cache, [key |-> key, value |-> value])

\* an addToCache that evicts only above the limit
addToCacheLate(cache, key, value) ==
    MapSet(IF Len(cache) > MAX_CACHE_SIZE /\ cache[1].key # <<>>
           THEN MapDelete(cache, cache[1].key) ELSE cache,
           key, value)

\* an addToCache that evicts the entry inserted last
addToCacheNewest(cache, key, value) ==
    MapSet(IF Len(cache) >= MAX_CACHE_SIZE /\ cache[Len(cache)].key # <<>>
           THEN MapDelete(cache, cache[Len(cache)].key) ELSE cache,
           key, value)

\* addToCache(cache, key, value): at MAX_CACHE_SIZE entries or more the first
\* key of the Map is deleted (unless it is the empty string), whatever the key
\* that is being set; then cache.set(key, value)
addToCache(cache, key, value) ==
    MapSet(IF Len(cache) >= MAX_CACHE_SIZE /\ cache[1].key # <<>>
           THEN MapDelete(cache, cache[1].key) ELSE cache,
           key, value)

\* statSync(path).mtimeMs
statSync(path, dsk) == dsk.mtimeMs[path]

\* the text of a coverage file: one record that names the project directory
\* and carries the modification time of the file as its LF
CoverageText(path, mtime) ==
    SF \o SubSeq(path, 3, Len(path) - 2) \o <<"\n">>
       \o LF \o ToDecimal(mtime) \o <<"\n">> \o EndOfRecord

\* the text of a brennpunkt.yaml: written with a minLines first, and with a
\* quoted top and a comment by every other rewrite
YamlText(mtime) ==
    IF mtime % 2 = 0
    THEN <<"m", "i", "n", "L", "i", "n", "e", "s", ":", " ", "3">>
    ELSE <<"#", "x", "\n", "t", "o", "p", ":", " ", "'", "2", "'", "\n", "n", "o">>

\* readFileSync(path, 'utf-8')
readFileSync(path, dsk) ==
    IF path[Len(path)] = "brennpunkt.yaml" THEN YamlText(dsk.mtimeMs[path])
    ELSE CoverageText(path, dsk.mtimeMs[path])

\* DEFAULT_CONFIG, weights in tenths; an optional field is <<>> when absent
DEFAULT_CONFIG ==
    [weights |-> [branches |-> 5, functions |-> 3, lines |-> 2],
     minLines |-> <<10>>, top |-> <<>>, coveragePath |-> <<>>]

\* trimmed.indexOf(':'), 1-based; 0 when there is none
ColonIndex(s) ==
    LET at == {i \in 1..Len(s) : s[i] = ":"}
    IN  IF at = {} THEN 0 ELSE CHOOSE i \in at : \A j \in at : i <= j

\* the quotes around a value removed
Unquote(value) ==
    IF /\ Len(value) >= 1
       /\ \/ value[1] = "\"" /\ value[Len(value)] = "\""
          \/ value[1] = "'" /\ value[Len(value)] = "'"
    THEN SubSeq(value, 2, Len(value) - 1)
    ELSE value

\* one iteration of the loop over the lines of brennpunkt.yaml (the keys of
\* the texts above: minLines and top)
ConfigLine(cfg, line) ==
    LET trimmed == Trim(line)
        colon   == ColonIndex(trimmed)
        key     == Trim(SubSeq(trimmed, 1, colon - 1))
        value   == Unquote(Trim(SubSeq(trimmed, colon + 1, Len(trimmed))))
        num     == parseInt(value)
    IN  IF trimmed = <<>> \/ trimmed[1] = "#" \/ colon = 0 THEN cfg
        ELSE IF key = <<"m", "i", "n", "L", "i", "n", "e", "s">> /\ ~num.nan
        THEN [cfg EXCEPT !.minLines = <<num.v>>]
        ELSE IF key = <<"t", "o", "p">> /\ ~num.nan
        THEN [cfg EXCEPT !.top = <<num.v>>]
        ELSE cfg

RECURSIVE ConfigLines(_, _)
ConfigLines(cfg, ls) ==
    IF ls = <<>> THEN cfg ELSE ConfigLines(ConfigLine(cfg, Head(ls)), Tail(ls))

\* the loop of loadProjectConfig over content.split('\n'), from DEFAULT_CONFIG
parseYaml(text) == ConfigLines(DEFAULT_CONFIG, Split(text))

\* a cache entry that is never out of date
IsCurrentAlways(cached, mtime) == cached # <<>>

\* cached && cached.mtime === stat.mtimeMs
IsCurrent(cached, mtime) == cached # <<>> /\ cached[1].mtime = mtime

\* validateProjectPath(projectPath) throws unless the directory exists
validateProjectPath(projectPath, dsk) == existsSync(projectPath, dsk)

\* what a loader hands back: whether it threw, its value, and the cache after
Loaded(thrown, value, cache) == [thrown |-> thrown, value |-> value, cache |-> cache]

\* loadProjectConfig(projectPath), with configCache = cache
loadProjectConfig(projectPath, dsk, cache) ==
    LET configPath == Resolve(projectPath, <<"brennpunkt.yaml">>)
        mtime      == statSync(configPath, dsk)
        cached     == MapGet(cache, configPath)
        cfg        == parseYaml(readFileSync(configPath, dsk))
    IN  IF ~validateProjectPath(projectPath, dsk) THEN Loaded(TRUE, <<>>, cache)
        ELSE IF ~existsSync(configPath, dsk) THEN Loaded(FALSE, DEFAULT_CONFIG, cache)
        ELSE IF IsCurrent(cached, mtime) THEN Loaded(FALSE, cached[1].config, cache)
        ELSE Loaded(FALSE, cfg,
                    addToCache(cache, configPath, [config |-> cfg, mtime |-> mtime]))

\* findCoverageFile(projectPath): the first of COVERAGE_SEARCH_PATHS that
\* exists under the project, <<>> for null
findCoverageFile(projectPath, dsk) ==
    LET at == {i \in 1..Len(COVERAGE_SEARCH_PATHS) :
                  existsSync(Resolve(projectPath, COVERAGE_SEARCH_PATHS[i]), dsk)}
    IN  IF at = {} THEN <<>>
        ELSE Resolve(projectPath, COVERAGE_SEARCH_PATHS[CHOOSE i \in at : \A j \in at : i <= j])

\* loadCoverage(projectPath, config), with cacheByProject = cache
loadCoverage(projectPath, cfg, dsk, cache) ==
    LET path   == IF cfg.coveragePath # <<>>
                  THEN Resolve(projectPath, cfg.coveragePath)
                  ELSE findCoverageFile(projectPath, dsk)
        mtime  == statSync(path, dsk)
        cached == MapGet(cache, path)
        data   == parseLcov(readFileSync(path, dsk))
    IN  IF ~validateProjectPath(projectPath, dsk) THEN Loaded(TRUE, <<>>, cache)
        ELSE IF path = <<>> \/ ~existsSync(path, dsk) THEN Loaded(TRUE, <<>>, cache)
        ELSE IF IsCurrent(cached, mtime) THEN Loaded(FALSE, cached[1].data, cache)
        ELSE Loaded(FALSE, data,
                    addToCache(cache, path,
                               [data |-> data, mtime |-> mtime, path |-> path]))

----------------------------------------------------------------------------
(* The server at work: handlers load projects, files are rewritten         *)

MaxProjects == 52

MaxRewrites == 1

\* the directory of project p; project 0 has neither a coverage file nor a
\* brennpunkt.yaml
ProjectDir(p) == <<"/", "projects">> \o ToDecimal(p)

CoveragePathOf(p) == Resolve(ProjectDir(p), COVERAGE_SEARCH_PATHS[1])

ConfigPathOf(p) == Resolve(ProjectDir(p), <<"brennpunkt.yaml">>)

\* the project a key of cacheByProject belongs to
ProjectOf(key) == DigitsValue(SubSeq(key, 3, Len(key) - 2), 0)

\* the projects with an entry in cacheByProject
InCache == { ProjectOf(cacheByProject[i].key) : i \in 1..Len(cacheByProject) }

\* projects come to the server in ascending order: the next new one
NextProject ==
    IF InCache = {} THEN 1 ELSE (CHOOSE p \in InCache : \A q \in InCache : q <= p) + 1

InitCache ==
    /\ disk = [exists  |-> { ProjectDir(p) : p \in 0..MaxProjects }
                             \cup { CoveragePathOf(p) : p \in 1..MaxProjects }
                             \cup { ConfigPathOf(p) : p \in 1..MaxProjects },
               mtimeMs |-> [path \in { CoveragePathOf(p) : p \in 1..MaxProjects }
                                       \cup { ConfigPathOf(p) : p \in 1..MaxProjects }
                               |-> 0]]
    /\ cacheByProject = <<>>
    /\ configCache = <<>>
    /\ returned = <<>>
    /\ pc = "serving"
    /\ content = <<>>
    /\ lines = <<>>
    /\ idx = 0
    /\ current = <<>>
    /\ files = <<>>
    /\ blocks = <<>>
    /\ runs = <<>>
    /\ scored = <<>>
    /\ argv = <<>>
    /\ config = <<>>
    /\ exit = <<>>
    /\ searched = <<>>
    /\ discovered = <<>>
    /\ uri = <<>>
    /\ parsed = <<>>

\* the first two statements of a tool handler on args.projectPath:
\* const config = loadProjectConfig(projectPath);
\* const files = loadCoverage(projectPath, config)
LoadProject(p) ==
    LET c == loadProjectConfig(ProjectDir(p), disk, configCache)
        f == loadCoverage(ProjectDir(p), c.value, disk, cacheByProject)
    IN  /\ configCache' = c.cache
        /\ IF c.thrown
           THEN /\ cacheByProject' = cacheByProject
                /\ returned' = <<[call |-> "loadProjectConfig", project |-> p,
                                  thrown |-> TRUE, config |-> <<>>, data |-> <<>>]>>
           ELSE /\ cacheByProject' = f.cache
                /\ returned' = <<[call |-> "loadCoverage", project |-> p,
                                  thrown |-> f.thrown, config |-> <<c.value>>,
                                  data |-> IF f.thrown THEN <<>> ELSE <<f.value>>]>>

\* a handler is called for a project: one without coverage, the first
\* project, the project that came last, or a new one
Load ==
    /\ pc = "serving"
    /\ LET n == NextProject
       IN  \E p \in {0, 1, n - 1, n} :
              /\ p <= MaxProjects
              /\ LoadProject(p)
    /\ UNCHANGED <<content, lines, idx, current, files, pc, blocks, runs>>
    /\ UNCHANGED <<scored, argv, disk, config, exit, searched, discovered, uri, parsed>>

\* the configuration resource reads brennpunkt.yaml of the first project
\* alone, once a tool has been called for that project
ReadConfig ==
    /\ pc = "serving"
    /\ cacheByProject # <<>>
    /\ LET c == loadProjectConfig(ProjectDir(1), disk, configCache)
       IN  /\ configCache' = c.cache
           /\ returned' = <<[call |-> "loadProjectConfig", project |-> 1,
                             thrown |-> c.thrown,
                             config |-> IF c.thrown THEN <<>> ELSE <<c.value>>,
                             data |-> <<>>]>>
    /\ UNCHANGED cacheByProject
    /\ UNCHANGED <<content, lines, idx, current, files, pc, blocks, runs>>
    /\ UNCHANGED <<scored, argv, disk, config, exit, searched, discovered, uri, parsed>>

\* a test run rewrites the coverage file of the first project, or its
\* brennpunkt.yaml is edited: new text, later modification time
Rewrite ==
    /\ pc = "serving"
    /\ \E path \in {CoveragePathOf(1), ConfigPathOf(1)} :
          /\ disk.mtimeMs[path] < MaxRewrites
          /\ disk' = [disk EXCEPT !.mtimeMs[path] = @ + 1]
    /\ UNCHANGED <<content, lines, idx, current, files, pc, blocks, runs>>
    /\ UNCHANGED <<scored, argv, config, exit, searched, discovered, uri, parsed>>
    /\ UNCHANGED cacheVars

NextCache == Load \/ ReadConfig \/ Rewrite

SpecCache == InitCache /\ [][NextCache]_vars

----------------------------------------------------------------------------
(* Claims about the two caches                                             *)

\* the keys a Map holds
KeySet(cache) == { cache[i].key : i \in 1..Len(cache) }

\* the entries a Map holds
EntrySet(cache) == { cache[i] : i \in 1..Len(cache) }

\* C23: after any sequence of loadCoverage and loadProjectConfig calls, over
\* any number of projects, each of the two caches holds at most
\* MAX_CACHE_SIZE entries.
C23_CachesBounded ==
    /\ Len(cacheByProject) <= MAX_CACHE_SIZE
    /\ Len(configCache) <= MAX_CACHE_SIZE

\* more projects than MAX_CACHE_SIZE have been loaded, both caches are full
\* and the entries of the first two projects are gone
C23_Witness ==
    /\ NextProject = MAX_CACHE_SIZE + 3
    /\ Len(cacheByProject) = MAX_CACHE_SIZE
    /\ Len(configCache) = MAX_CACHE_SIZE
    /\ CoveragePathOf(1) \notin KeySet(cacheByProject)
    /\ CoveragePathOf(2) \notin KeySet(cacheByProject)
    /\ ConfigPathOf(2) \notin KeySet(configCache)

\* a step from the Map before to the Map after: a new key set on a full Map
\* removes the first entry and nothing else, and goes last
FifoInsert(before, after) ==
    (Len(before) = MAX_CACHE_SIZE /\ KeySet(after) \ KeySet(before) # {}) =>
        /\ Len(after) = MAX_CACHE_SIZE
        /\ SubSeq(after, 1, MAX_CACHE_SIZE - 1) = Tail(before)
        /\ after[MAX_CACHE_SIZE].key \notin KeySet(before)

C25_ReturnsCurrentTallies ==
    [][ (disk' = disk /\ returned' # <<>> /\ returned'[1].data # <<>>) =>
          LET path  == CoveragePathOf(returned'[1].project)
              fresh == parseLcov(readFileSync(path, disk))
          IN  /\ returned'[1].data[1] = fresh
              /\ MapGet(cacheByProject', path) =
                    <<[data |-> fresh, mtime |-> statSync(path, disk), path |-> path]>>
      ]_vars

\* the coverage file of the first project has been rewritten; its entry was
\* evicted and made again, and the last call returned the tallies of the
\* rewritten file
C25_Witness ==
    /\ disk.mtimeMs[CoveragePathOf(1)] = 1
    /\ Len(cacheByProject) >= MAX_CACHE_SIZE - 1
    /\ cacheByProject[Len(cacheByProject)].key = CoveragePathOf(1)
    /\ returned # <<>>
    /\ returned[1].project = 1
    /\ returned[1].data # <<>>
    /\ Len(returned[1].data[1]) = 1
    /\ returned[1].data[1][1].linesFound = Num(1)

\* a step from the Map before to the Map after: when the value of a key the
\* Map had is replaced, every entry of another key is still there
RecacheKeepsOthers(before, after) ==
    \A i \in 1..Len(before) :
        ( /\ before[i].key \in KeySet(after)
          /\ before[i] \notin EntrySet(after) )
        => \A j \in 1..Len(before) : j # i => before[j] \in EntrySet(after)

\* C30: caching again a path that is in the cache, its file's modification
\* time having changed, replaces that path's entry only: whatever the size of
\* the cache, MAX_CACHE_SIZE included, no entry of another path is removed.
C30_RecacheRemovesNothingElse ==
    [][ /\ RecacheKeepsOthers(cacheByProject, cacheByProject')
        /\ RecacheKeepsOthers(configCache, configCache') ]_vars

====
